---- MODULE Spec2Model ----
(***************************************************************************)
(* Gemstone Memory: the round state machine (GameEngine), the variation    *)
(* selector (VariationManager) and the ticket economy (TicketManager).     *)
(*                                                                         *)
(* Units: money is kept in cents (ticket_precision = 2), multipliers in    *)
(* hundredths, timerSeconds in hundredths of a second, displaySpeed in     *)
(* milliseconds.  Sequences are 1-based here and 0-based in the source.    *)
(* A TypeScript null is the string "null", undefined is "undefined".       *)
(***************************************************************************)
EXTENDS Integers, Sequences, FiniteSets, TLC

VARIABLES
    state, round, pattern, playerInput, currentVariation,
    currentCombinationBase, variationStartRound, timerSeconds, displaySpeed,
    score, lastReward, ticketManager,
    variationManager,
    tm,
    op, ret

engineVars ==
    <<state, round, pattern, playerInput, currentVariation,
      currentCombinationBase, variationStartRound, timerSeconds, displaySpeed,
      score, lastReward, ticketManager>>

vars ==
    <<state, round, pattern, playerInput, currentVariation,
      currentCombinationBase, variationStartRound, timerSeconds, displaySpeed,
      score, lastReward, ticketManager, variationManager, tm, op, ret>>

-----------------------------------------------------------------------------
(* Bounds of the model                                                     *)

\* Rounds are played up to this round number in the free-driver model.
MaxRound ==
    3

\* Rounds are played up to this round number with a ticket manager attached.
MaxTicketRound ==
    2

\* Rounds are played up to this round number in the driven model.
MaxPlayRound ==
    21

\* The random patterns explored by the free driver vary in this many leading
\* gems.
MaxFreeRandomGems ==
    1

\* The random patterns explored by the driven model vary in this many leading
\* gems.
MaxPlayRandomGems ==
    2

\* The random patterns explored by the free driver have at most this many
\* gems.
MaxFreePatternLength ==
    4

\* The random patterns explored by the driven model have at most this many
\* gems.
MaxPlayPatternLength ==
    10

\* Rewards are calculated for the rounds up to this one.
MaxRewardRound ==
    45

\* The TicketManager on its own pays for at most this many games.
MaxGamesPlayed ==
    3

\* The TicketManager on its own is awarded at most this many rewards of
\* 9.00.
MaxSmallRewards ==
    2

\* The TicketManager on its own is awarded at most this many rewards of
\* 10000.00.
MaxLargeRewards ==
    2

\* The TicketManager on its own is told of rounds up to this one.
MaxHighestRound ==
    3

\* Rewards are calculated under other multiplier tables for the rounds up to
\* this one, five rounds beyond the end of the table.
MaxMultiplierRound ==
    25

\* Rewards are calculated under configurations with gaps for the rounds up
\* to this one.
MaxConfigRound ==
    2

\* Rounds are played up to this round number by the driver that may start a
\* round again.
MaxAgainRound ==
    18

\* The random patterns explored by that driver, and by the driver of the
\* player who makes no mistake, vary in this many leading gems.
MaxAgainRandomGems ==
    1

\* The perfect player's session ends when it has reached this round number.
MaxPerfectRound ==
    21

\* Rewards are earned while totalEarned stays within this many cents.
MaxTotalEarned ==
    3

\* config.demo.starting_balance in cents: enough for two games, so that the
\* cost gate closes within the model.
starting_balance ==
    2500

-----------------------------------------------------------------------------
(* Types                                                                   *)

GameState ==
    {"INITIALIZATION", "CALIBRATION", "VARIATION_INTRO", "PATTERN_DISPLAY",
     "PLAYER_INPUT", "ROUND_COMPLETE", "ROUND_FAILED"}

gemTypes ==
    <<"EMERALD", "TRILLION", "MARQUISE", "CUSHION">>

GemstoneType ==
    {gemTypes[i] : i \in 1..Len(gemTypes)}

GameVariation ==
    {"NONE", "REVERSE", "GHOST", "SPEED_CHAOS", "COLOR_SHUFFLE",
     "SELECTIVE_ATTENTION", "REVERSE_COMBINATION"}

-----------------------------------------------------------------------------
(* GAME_CONFIG                                                             *)

initialPatternLength ==
    4

initialTimerSeconds ==
    800

initialDisplaySpeed ==
    750

minTimerSeconds ==
    300

minDisplaySpeed ==
    300

timerDecreasePerRound ==
    25

speedDecreasePerRound ==
    25

lengthIncreaseInterval ==
    3

Max(a, b) ==
    IF a >= b THEN a ELSE b

Min(a, b) ==
    IF a <= b THEN a ELSE b

-----------------------------------------------------------------------------
(* The ticket configuration handed to the TicketManager constructor        *)

\* starting_balance is an input of the constructor; see the bounds above.

cost_to_play ==
    1000

max_balance ==
    999999

min_balance ==
    0

max_single_payout ==
    20000

base_reward ==
    250

round_multipliers ==
    <<1, 10, 20, 35, 50, 70, 90, 115, 140, 170,
      200, 235, 275, 320, 370, 430, 500, 580, 670, 800>>

\* variation_bonuses, keyed by the variation through bonusMap
variation_bonuses ==
    [v \in GameVariation |->
        CASE v = "NONE" -> 100
          [] v = "REVERSE" -> 115
          [] v = "GHOST" -> 115
          [] v = "SPEED_CHAOS" -> 120
          [] v = "COLOR_SHUFFLE" -> 115
          [] v = "SELECTIVE_ATTENTION" -> 120
          [] v = "REVERSE_COMBINATION" -> 135]

\* difficulty_settings[d].reward_multiplier
difficulty_settings ==
    [d \in {"normal", "easy", "hard"} |->
        CASE d = "normal" -> 100
          [] d = "easy" -> 50
          [] d = "hard" -> 200]

default_difficulty ==
    "normal"

-----------------------------------------------------------------------------
(* Pure helpers of the GameEngine                                          *)

\* getPatternLength without the growth every lengthIncreaseInterval rounds.
getPatternLengthNoGrowth(r) ==
    initialPatternLength

\* GameEngine.getPatternLength
getPatternLength(r) ==
    IF r = 1
    THEN 4
    ELSE initialPatternLength + ((r - 1) \div lengthIncreaseInterval)

\* updateDisplaySpeed without the floor of minDisplaySpeed.
updateDisplaySpeedUnclamped(r) ==
    IF r = 1
    THEN 1000
    ELSE initialDisplaySpeed - r * speedDecreasePerRound

\* GameEngine.updateDisplaySpeed: the value stored in displaySpeed
updateDisplaySpeed(r) ==
    IF r = 1
    THEN 1000
    ELSE Max(minDisplaySpeed, initialDisplaySpeed - r * speedDecreasePerRound)

\* updateTimerForRound without the floor of minTimerSeconds.
updateTimerForRoundUnclamped(r) ==
    IF r = 1
    THEN 1000
    ELSE initialTimerSeconds - r * timerDecreasePerRound

\* GameEngine.updateTimerForRound: the value stored in timerSeconds
updateTimerForRound(r) ==
    IF r = 1
    THEN 1000
    ELSE Max(minTimerSeconds, initialTimerSeconds - r * timerDecreasePerRound)

\* A swap that loses the gem at position k: position j keeps its gem.
SwapOverwrites(s, k, j) ==
    [s EXCEPT ![k] = s[j]]

\* One pass of the Fisher-Yates loop body for index i (0-based i = k - 1):
\* swap positions k and j, j drawn from 1..k.
Swap(s, k, j) ==
    [s EXCEPT ![k] = s[j], ![j] = s[k]]

RECURSIVE FisherYates(_, _)
\* All results of the loop "for (i = k-1; i > 0; i--)" started on sequence s.
FisherYates(s, k) ==
    IF k <= 1
    THEN {s}
    ELSE UNION {FisherYates(Swap(s, k, j), k - 1) : j \in 1..k}

\* GameEngine.generateCalibrationPattern: the patterns it can produce
generateCalibrationPattern ==
    FisherYates(<<"EMERALD", "TRILLION", "MARQUISE", "CUSHION">>, 4)

\* GameEngine.generatePattern: the patterns it can produce in round r, every
\* sequence of getPatternLength(r) gems
generatePattern(r) ==
    [1..getPatternLength(r) -> GemstoneType]

\* expectedGem without the variation rules: the pattern is always expected in
\* its original order.
expectedGemForward(pat, input, variation) ==
    IF Len(input) + 1 \in 1..Len(pat)
    THEN pat[Len(input) + 1]
    ELSE "undefined"

\* expectedGem with the reverse rule applied to every active variation.
expectedGemReverseAll(pat, input, variation) ==
    LET idx == IF variation # "NONE"
               THEN Len(pat) - Len(input)
               ELSE Len(input) + 1
    IN  IF idx \in 1..Len(pat) THEN pat[idx] ELSE "undefined"

\* GameEngine.handlePlayerInput, lines 162-169: the gem expected next
\* ("undefined" when the index is outside the pattern).
expectedGem(pat, input, variation) ==
    LET currentIndex == Len(input)
        idx == IF variation \in {"REVERSE", "REVERSE_COMBINATION"}
               THEN Len(pat) - currentIndex
               ELSE currentIndex + 1
    IN  IF idx \in 1..Len(pat) THEN pat[idx] ELSE "undefined"

\* calculateRoundScore without the bonus of an active variation.
calculateRoundScoreNoBonus(r, variation) ==
    100 * r

\* GameEngine.calculateRoundScore
calculateRoundScore(r, variation) ==
    IF variation # "NONE"
    THEN (100 * r * 115 + 50) \div 100
    ELSE 100 * r

-----------------------------------------------------------------------------
(* VariationManager                                                        *)

\* VariationManager.getAvailableVariations
getAvailableVariations(r) ==
    IF r = 1 THEN <<>>
    ELSE IF r <= 4 THEN <<"GHOST">>
    ELSE IF r <= 7 THEN <<"GHOST", "SELECTIVE_ATTENTION">>
    ELSE IF r <= 10 THEN <<"GHOST", "SELECTIVE_ATTENTION", "SPEED_CHAOS">>
    ELSE IF r <= 13 THEN <<"GHOST", "SELECTIVE_ATTENTION", "SPEED_CHAOS",
                          "COLOR_SHUFFLE">>
    ELSE IF r <= 16 THEN <<"GHOST", "SELECTIVE_ATTENTION", "SPEED_CHAOS",
                          "COLOR_SHUFFLE", "REVERSE">>
    ELSE <<"REVERSE_COMBINATION">>

\* Array.prototype.filter(v => v !== x)
FilterOut(s, x) ==
    SelectSeq(s, LAMBDA v : v # x)

\* The state of a freshly constructed (or reset) VariationManager
VariationManagerInit ==
    [currentVariation |-> "null", previousVariation |-> "null",
     combinationBase |-> "null", tutorialsShown |-> {},
     variationStartRound |-> 0]

\* selectVariation that draws from the whole pool at a selection round, the
\* previous variation included.
selectVariationAllowsRepeat(vm, r) ==
    LET available == getAvailableVariations(r)
        shouldSelectNew == r = 2 \/ (r > 2 /\ (r - 2) % 3 = 0)
        baseVariations == <<"GHOST", "SPEED_CHAOS", "COLOR_SHUFFLE",
                            "SELECTIVE_ATTENTION">>
    IN  IF Len(available) = 0
        THEN {vm}
        ELSE IF shouldSelectNew \/ vm.currentVariation = "null"
        THEN IF r >= 17
             THEN {[vm EXCEPT !.variationStartRound = r,
                              !.combinationBase = baseVariations[i],
                              !.currentVariation = "REVERSE_COMBINATION",
                              !.previousVariation = "REVERSE_COMBINATION"] :
                      i \in 1..Len(baseVariations)}
             ELSE {[vm EXCEPT !.variationStartRound = r,
                              !.currentVariation = available[i],
                              !.previousVariation = available[i]] :
                      i \in 1..Len(available)}
        ELSE {vm}

\* VariationManager.selectVariation: the manager states it can end in.  The
\* value returned is the currentVariation of the resulting state (null only
\* when no variation is available, i.e. in round 1).
selectVariation(vm, r) ==
    LET available == getAvailableVariations(r)
        shouldSelectNew == r = 2 \/ (r > 2 /\ (r - 2) % 3 = 0)
        baseVariations == <<"GHOST", "SPEED_CHAOS", "COLOR_SHUFFLE",
                            "SELECTIVE_ATTENTION">>
        filteredBase == IF vm.combinationBase # "null"
                        THEN FilterOut(baseVariations, vm.combinationBase)
                        ELSE baseVariations
        filtered == IF vm.previousVariation # "null"
                    THEN FilterOut(available, vm.previousVariation)
                    ELSE available
        pool == IF Len(filtered) > 0 THEN filtered ELSE available
    IN  IF Len(available) = 0
        THEN {vm}
        ELSE IF shouldSelectNew \/ vm.currentVariation = "null"
        THEN IF r >= 17
             THEN {[vm EXCEPT !.variationStartRound = r,
                              !.combinationBase = filteredBase[i],
                              !.currentVariation = "REVERSE_COMBINATION",
                              !.previousVariation = "REVERSE_COMBINATION"] :
                      i \in 1..Len(filteredBase)}
             ELSE {[vm EXCEPT !.variationStartRound = r,
                              !.currentVariation = pool[i],
                              !.previousVariation = pool[i]] :
                      i \in 1..Len(pool)}
        ELSE {vm}

\* VariationManager.getExpectedInput
Reverse(s) ==
    [i \in 1..Len(s) |-> s[Len(s) + 1 - i]]

getExpectedInput(pat, variation) ==
    IF variation = "REVERSE" \/ variation = "REVERSE_COMBINATION"
    THEN Reverse(pat)
    ELSE pat

\* VariationManager.validateInput
validateInput(input, pat, variation) ==
    LET expected == getExpectedInput(pat, variation)
    IN  IF Len(input) # Len(expected)
        THEN FALSE
        ELSE \A index \in 1..Len(input) : input[index] = expected[index]

-----------------------------------------------------------------------------
(* The JavaScript number type: IEEE 754 binary64, for positive values      *)
(*                                                                         *)
(* A natural number of any size is a sequence of limbs in base 2^14, least *)
(* significant first and without leading zero limbs.  A number is the      *)
(* record [m, e] that stands for m * 2^e, with m a natural of exactly 53   *)
(* bits; zero is the record with the empty mantissa.  The difference of a  *)
(* number and a larger one is negative: it carries its magnitude and the   *)
(* field negative.                                                         *)

LimbBits ==
    14

LimbBase ==
    16384

\* 2^k for k in 0..14
Pow2(k) ==
    <<1, 2, 4, 8, 16, 32, 64, 128, 256, 512, 1024, 2048, 4096, 8192,
      16384>>[k + 1]

RECURSIVE BigFromInt(_)
\* The limbs of the integer n >= 0
BigFromInt(n) ==
    IF n = 0
    THEN <<>>
    ELSE <<n % LimbBase>> \o BigFromInt(n \div LimbBase)

RECURSIVE BigToInt(_)
\* The integer of limbs that fit in 31 bits
BigToInt(a) ==
    IF Len(a) = 0
    THEN 0
    ELSE a[1] + LimbBase * BigToInt(Tail(a))

RECURSIVE BigTrim(_)
\* Without leading zero limbs
BigTrim(a) ==
    IF Len(a) > 0 /\ a[Len(a)] = 0
    THEN BigTrim(SubSeq(a, 1, Len(a) - 1))
    ELSE a

RECURSIVE BigCarry(_, _, _)
\* The limbs of the sum of cols[i] * LimbBase^(i - 1) from column i on
BigCarry(cols, i, carry) ==
    IF i > Len(cols)
    THEN BigFromInt(carry)
    ELSE <<(cols[i] + carry) % LimbBase>>
            \o BigCarry(cols, i + 1, (cols[i] + carry) \div LimbBase)

RECURSIVE BigMulColumn(_, _, _, _)
\* The sum of a[i] * b[k + 1 - i] over the i from the given one on
BigMulColumn(a, b, k, i) ==
    IF i > Len(a)
    THEN 0
    ELSE (IF k + 1 - i \in 1..Len(b) THEN a[i] * b[k + 1 - i] ELSE 0)
            + BigMulColumn(a, b, k, i + 1)

\* The product of two naturals of at most 4 limbs each
BigMul(a, b) ==
    IF Len(a) = 0 \/ Len(b) = 0
    THEN <<>>
    ELSE BigTrim(BigCarry([k \in 1..(Len(a) + Len(b) - 1) |->
                              BigMulColumn(a, b, k, 1)], 1, 0))

RECURSIVE BigDivSmall(_, _, _)
\* Long division of a by d < 2^16 from the most significant limb down, rem
\* being the remainder carried in: the pair <<quotient limbs, remainder>>.
BigDivSmall(a, d, rem) ==
    IF Len(a) = 0
    THEN <<(<<>>), rem>>
    ELSE LET cur == rem * LimbBase + a[Len(a)]
             rest == BigDivSmall(SubSeq(a, 1, Len(a) - 1), d, cur % d)
         IN  <<Append(rest[1], cur \div d), rest[2]>>

\* The number of bits of a
BigBitLen(a) ==
    IF Len(a) = 0
    THEN 0
    ELSE LimbBits * (Len(a) - 1)
            + (CHOOSE k \in 1..LimbBits :
                  a[Len(a)] >= Pow2(k - 1) /\ a[Len(a)] < Pow2(k))

\* Bit k of a, bit 0 being the least significant
BigBit(a, k) ==
    IF k \div LimbBits + 1 > Len(a)
    THEN 0
    ELSE (a[k \div LimbBits + 1] \div Pow2(k % LimbBits)) % 2

\* Whether one of the bits 0..k-1 of a is set
BigLowBits(a, k) ==
    \/ \E i \in 1..Len(a) : i <= k \div LimbBits /\ a[i] # 0
    \/ /\ k \div LimbBits + 1 <= Len(a)
       /\ a[k \div LimbBits + 1] % Pow2(k % LimbBits) # 0

\* a shifted right by k bits
BigShiftRight(a, k) ==
    LET w == k \div LimbBits
        b == k % LimbBits
        limb(i) == IF i <= Len(a) THEN a[i] ELSE 0
    IN  IF w >= Len(a)
        THEN <<>>
        ELSE BigTrim([i \in 1..(Len(a) - w) |->
                         limb(i + w) \div Pow2(b)
                           + (limb(i + w + 1) % Pow2(b)) * Pow2(LimbBits - b)])

\* a + b
BigAdd(a, b) ==
    LET limb(c, i) == IF i <= Len(c) THEN c[i] ELSE 0
    IN  BigCarry([i \in 1..Max(Len(a), Len(b)) |-> limb(a, i) + limb(b, i)],
                 1, 0)

RECURSIVE BigBorrow(_, _, _, _)
\* The limbs of a - b from limb i on, for a >= b, with the borrow carried in
BigBorrow(a, b, i, borrow) ==
    IF i > Len(a)
    THEN <<>>
    ELSE LET d == a[i] - (IF i <= Len(b) THEN b[i] ELSE 0) - borrow
         IN  <<(d + LimbBase) % LimbBase>>
                \o BigBorrow(a, b, i + 1, IF d < 0 THEN 1 ELSE 0)

\* a - b for a >= b
BigSub(a, b) ==
    BigTrim(BigBorrow(a, b, 1, 0))

\* a # 0 shifted left by k bits
BigShiftLeft(a, k) ==
    [i \in 1..(k \div LimbBits) |-> 0]
       \o BigCarry([i \in 1..Len(a) |-> a[i] * Pow2(k % LimbBits)], 1, 0)

\* a + 1
BigIncrement(a) ==
    BigCarry(a, 1, 1)

\* Whether a < b for naturals of the same number of limbs
BigLess(a, b) ==
    \E i \in 1..Len(a) :
       /\ a[i] < b[i]
       /\ \A j \in (i + 1)..Len(a) : a[j] = b[j]

\* The number nearest to (p + f) * 2^e, ties to the even mantissa, where p
\* has at least 53 bits and 0 <= f < 1 with f # 0 exactly if sticky.
RoundToDouble(p, sticky, e) ==
    LET sh == BigBitLen(p) - 53
        q == BigShiftRight(p, sh)
        guard == sh > 0 /\ BigBit(p, sh - 1) = 1
        below == sticky \/ (sh > 1 /\ BigLowBits(p, sh - 1))
        roundUp == guard /\ (below \/ BigBit(q, 0) = 1)
        q2 == IF roundUp THEN BigIncrement(q) ELSE q
    IN  IF BigBitLen(q2) > 53
        THEN [m |-> BigShiftRight(q2, 1), e |-> e + sh + 1]
        ELSE [m |-> q2, e |-> e + sh]

DoubleZero ==
    [m |-> <<>>, e |-> 0]

\* The number denoted by the decimal literal n/d (n < 2^31, d < 2^16), or
\* the result of an integer computation when d = 1: the double nearest to
\* n/d, from the quotient of n * 2^70 by d.
DoubleFromRatio(n, d) ==
    IF n = 0
    THEN DoubleZero
    ELSE LET scaled == <<0, 0, 0, 0, 0>> \o BigFromInt(n)
             qr == BigDivSmall(scaled, d, 0)
         IN  RoundToDouble(BigTrim(qr[1]), qr[2] # 0, 0 - 70)

\* x * y
DoubleMul(x, y) ==
    IF Len(x.m) = 0 \/ Len(y.m) = 0
    THEN DoubleZero
    ELSE RoundToDouble(BigMul(x.m, y.m), FALSE, x.e + y.e)

\* x < y for x, y >= 0
DoubleLessMagnitude(x, y) ==
    IF Len(y.m) = 0 THEN FALSE
    ELSE IF Len(x.m) = 0 THEN TRUE
    ELSE IF x.e # y.e THEN x.e < y.e
    ELSE BigLess(x.m, y.m)

\* x < y for y >= 0
DoubleLess(x, y) ==
    IF "negative" \in DOMAIN x THEN TRUE ELSE DoubleLessMagnitude(x, y)

\* The number nearest to p * 2^e for a natural p # 0 of any length
DoubleFromBig(p, e) ==
    IF BigBitLen(p) < 53
    THEN [m |-> BigShiftLeft(p, 53 - BigBitLen(p)),
          e |-> e - (53 - BigBitLen(p))]
    ELSE RoundToDouble(p, FALSE, e)

\* x + y for x, y >= 0
DoubleAdd(x, y) ==
    IF Len(x.m) = 0 THEN y
    ELSE IF Len(y.m) = 0 THEN x
    ELSE LET e == Min(x.e, y.e)
         IN  DoubleFromBig(BigAdd(BigShiftLeft(x.m, x.e - e),
                                  BigShiftLeft(y.m, y.e - e)), e)

\* x - y for x >= y >= 0
DoubleDifference(x, y) ==
    IF Len(y.m) = 0 THEN x
    ELSE IF x = y THEN DoubleZero
    ELSE LET e == Min(x.e, y.e)
         IN  DoubleFromBig(BigSub(BigShiftLeft(x.m, x.e - e),
                                  BigShiftLeft(y.m, y.e - e)), e)

\* x - y for x, y >= 0
DoubleSub(x, y) ==
    IF DoubleLessMagnitude(x, y)
    THEN LET d == DoubleDifference(y, x)
         IN  [m |-> d.m, e |-> d.e, negative |-> TRUE]
    ELSE DoubleDifference(x, y)

\* Math.min(x, y)
MathMin(x, y) ==
    IF DoubleLess(y, x) THEN y ELSE x

\* Math.round(x) for x < 2^31: the integer nearest to x, a half rounding up
MathRound(x) ==
    IF Len(x.m) = 0
    THEN 0
    ELSE IF x.e >= 0
    THEN BigToInt(x.m) * Pow2(x.e)
    ELSE BigToInt(BigShiftRight(x.m, 0 - x.e)) + BigBit(x.m, 0 - x.e - 1)

\* A configured amount or factor of h hundredths as the number the
\* configuration holds; also an amount of h cents that roundToTicketPrecision
\* returned, the quotient of the integer h by 100
ConfigNumber(h) ==
    DoubleFromRatio(h, 100)

-----------------------------------------------------------------------------
(* TicketManager                                                           *)
(*                                                                         *)
(* Amounts are in cents.  balance, totalEarned and totalSpent are held as  *)
(* whole cents here: each operation is exact on them.  The same ledger in  *)
(* the numbers of the language is given further down (SpecLedger).         *)

\* The tables of createMockConfig that a configuration may leave gaps in
createMockConfig ==
    [round_multipliers |-> round_multipliers,
     variation_bonuses |-> variation_bonuses,
     difficulty_settings |-> difficulty_settings]

\* The TicketManager constructor: the state of a manager constructed with
\* the given configuration
TicketManagerNew(config) ==
    [config |-> config,
     balance |-> starting_balance, totalEarned |-> 0, totalSpent |-> 0,
     gamesPlayed |-> 0, highestRound |-> 0,
     currentDifficulty |-> default_difficulty]

\* The state of a TicketManager freshly constructed with createMockConfig()
TicketManagerInit ==
    TicketManagerNew(createMockConfig)

\* canAffordGame that lets every game start.
canAffordGameAlways(t) ==
    TRUE

\* TicketManager.canAffordGame
canAffordGame(t) ==
    t.balance >= cost_to_play

\* deductGameCost that does not count the game.
deductGameCostUncounted(t) ==
    [t EXCEPT !.balance = t.balance - cost_to_play,
              !.totalSpent = t.totalSpent + cost_to_play]

\* TicketManager.deductGameCost: the state after a successful deduction
deductGameCost(t) ==
    [t EXCEPT !.balance = t.balance - cost_to_play,
              !.totalSpent = t.totalSpent + cost_to_play,
              !.gamesPlayed = t.gamesPlayed + 1]

\* addReward without the limit of max_balance.
addRewardUnlimited(t, amount) ==
    [t EXCEPT !.balance = t.balance + amount,
              !.totalEarned = t.totalEarned + amount]

\* TicketManager.addReward
addReward(t, amount) ==
    [t EXCEPT !.balance = Min(t.balance + amount, max_balance),
              !.totalEarned = t.totalEarned + amount]

\* getRoundMultiplier whose formula beyond the table starts from 0 instead
\* of 8.00.
getRoundMultiplierRestarts(t, r) ==
    LET multipliers == t.config.round_multipliers
    IN  IF r <= 0 THEN 0
        ELSE IF r <= Len(multipliers) THEN multipliers[r]
        ELSE (r - 20) * 100

\* TicketManager.getRoundMultiplier, in hundredths
getRoundMultiplier(t, r) ==
    LET multipliers == t.config.round_multipliers
    IN  IF r <= 0 THEN 0
        ELSE IF r <= Len(multipliers) THEN multipliers[r]
        ELSE 800 + (r - 20) * 100

\* TicketManager.getVariationBonus, in hundredths: the configured bonus, or
\* 1.00 when the lookup yields undefined or 0 (the operator ||)
getVariationBonus(t, variation) ==
    IF /\ variation \in DOMAIN t.config.variation_bonuses
       /\ t.config.variation_bonuses[variation] # 0
    THEN t.config.variation_bonuses[variation]
    ELSE 100

\* TicketManager.getDifficultyMultiplier, in hundredths
getDifficultyMultiplier(t) ==
    IF t.currentDifficulty \in DOMAIN t.config.difficulty_settings
    THEN t.config.difficulty_settings[t.currentDifficulty]
    ELSE 100

\* TicketManager.roundToTicketPrecision with ticket_precision = 2: the result
\* is Math.round(value * 100) / 100, given here as its whole number of cents.
roundToTicketPrecision(value) ==
    MathRound(DoubleMul(value, DoubleFromRatio(100, 1)))

\* TicketManager.calculateReward, in cents
calculateReward(t, r, variation) ==
    LET baseReward == ConfigNumber(base_reward)
        roundMultiplier == ConfigNumber(getRoundMultiplier(t, r))
        variationBonus == ConfigNumber(getVariationBonus(t, variation))
        difficultyMultiplier == ConfigNumber(getDifficultyMultiplier(t))
        reward == DoubleMul(DoubleMul(DoubleMul(baseReward, roundMultiplier),
                                      variationBonus),
                            difficultyMultiplier)
    IN  roundToTicketPrecision(
            MathMin(reward, ConfigNumber(max_single_payout)))

\* updateHighestRound that records the last round it was given.
updateHighestRoundOverwrites(t, r) ==
    [t EXCEPT !.highestRound = r]

\* TicketManager.updateHighestRound
updateHighestRound(t, r) ==
    IF r > t.highestRound THEN [t EXCEPT !.highestRound = r] ELSE t

\* reset that keeps the amount spent.
tmResetKeepsSpent(t) ==
    [t EXCEPT !.balance = starting_balance, !.totalEarned = 0,
              !.gamesPlayed = 0, !.highestRound = 0]

\* TicketManager.reset
tmReset(t) ==
    [t EXCEPT !.balance = starting_balance, !.totalEarned = 0,
              !.totalSpent = 0, !.gamesPlayed = 0, !.highestRound = 0]

\* getRTP without the case of nothing spent.
getRTPUnguarded(t) ==
    <<t.totalEarned, t.totalSpent>>

\* TicketManager.getRTP as the pair <<numerator, denominator>>; <<0, 1>> is 0
getRTP(t) ==
    IF t.totalSpent = 0 THEN <<0, 1>> ELSE <<t.totalEarned, t.totalSpent>>

-----------------------------------------------------------------------------
(* GameEngine: construction                                                *)

\* The GameEngine constructor with GameEngine.initialize, the construction
\* of its VariationManager, and the TicketManager built by the caller.  The
\* engine is constructed without a ticket manager here.
Init ==
    /\ state = "INITIALIZATION"
    /\ round = 1
    /\ pattern = <<>>
    /\ playerInput = <<>>
    /\ currentVariation = "NONE"
    /\ currentCombinationBase = "null"
    /\ variationStartRound = 0
    /\ timerSeconds = initialTimerSeconds
    /\ displaySpeed = updateDisplaySpeed(1)
    /\ score = 0
    /\ lastReward = 0
    /\ ticketManager = "null"
    /\ variationManager = VariationManagerInit
    /\ tm = TicketManagerInit
    /\ op = "constructor"
    /\ ret = "void"

-----------------------------------------------------------------------------
(* GameEngine: operations                                                  *)

\* startGameBody without markTutorialShown: the intro of a variation is
\* shown but never recorded.
startGameBodyNeverMarks ==
    /\ pattern' \in IF round = 1
                    THEN generateCalibrationPattern
                    ELSE generatePattern(round)
    /\ IF round = 1
       THEN /\ state' = "CALIBRATION"
            /\ UNCHANGED <<currentVariation, currentCombinationBase,
                           variationStartRound, variationManager>>
       ELSE \E vm2 \in selectVariation(variationManager, round) :
               LET newVariation == vm2.currentVariation
                   isNew == newVariation # "null"
                            /\ newVariation # currentVariation
                   intro == isNew /\ newVariation \notin vm2.tutorialsShown
               IN  /\ currentVariation' =
                          IF newVariation # "null" THEN newVariation
                          ELSE currentVariation
                   /\ currentCombinationBase' =
                          IF newVariation # "null" THEN vm2.combinationBase
                          ELSE currentCombinationBase
                   /\ variationStartRound' =
                          IF isNew THEN round ELSE variationStartRound
                   /\ variationManager' = vm2
                   /\ state' = IF intro \/ state = "VARIATION_INTRO"
                               THEN "VARIATION_INTRO"
                               ELSE "PATTERN_DISPLAY"
    /\ UNCHANGED <<round, playerInput, timerSeconds, displaySpeed, score,
                   lastReward, ticketManager>>

\* startGameBody that introduces a variation every time it is selected anew.
startGameBodyIntroducesAgain ==
    /\ pattern' \in IF round = 1
                    THEN generateCalibrationPattern
                    ELSE generatePattern(round)
    /\ IF round = 1
       THEN /\ state' = "CALIBRATION"
            /\ UNCHANGED <<currentVariation, currentCombinationBase,
                           variationStartRound, variationManager>>
       ELSE \E vm2 \in selectVariation(variationManager, round) :
               LET newVariation == vm2.currentVariation
                   isNew == newVariation # "null"
                            /\ newVariation # currentVariation
                   intro == isNew
               IN  /\ currentVariation' =
                          IF newVariation # "null" THEN newVariation
                          ELSE currentVariation
                   /\ currentCombinationBase' =
                          IF newVariation # "null" THEN vm2.combinationBase
                          ELSE currentCombinationBase
                   /\ variationStartRound' =
                          IF isNew THEN round ELSE variationStartRound
                   /\ variationManager' =
                          IF intro
                          THEN [vm2 EXCEPT !.tutorialsShown =
                                               @ \cup {newVariation}]
                          ELSE vm2
                   /\ state' = IF intro \/ state = "VARIATION_INTRO"
                               THEN "VARIATION_INTRO"
                               ELSE "PATTERN_DISPLAY"
    /\ UNCHANGED <<round, playerInput, timerSeconds, displaySpeed, score,
                   lastReward, ticketManager>>

\* The body of GameEngine.startGame with checkForNewVariation, and
\* generateCalibrationPattern or generatePattern: its effect on the engine
\* and on its VariationManager.
startGameBody ==
    /\ pattern' \in IF round = 1
                    THEN generateCalibrationPattern
                    ELSE generatePattern(round)
    /\ IF round = 1
       THEN /\ state' = "CALIBRATION"
            /\ UNCHANGED <<currentVariation, currentCombinationBase,
                           variationStartRound, variationManager>>
       ELSE \E vm2 \in selectVariation(variationManager, round) :
               LET newVariation == vm2.currentVariation
                   isNew == newVariation # "null"
                            /\ newVariation # currentVariation
                   intro == isNew /\ newVariation \notin vm2.tutorialsShown
               IN  /\ currentVariation' =
                          IF newVariation # "null" THEN newVariation
                          ELSE currentVariation
                   /\ currentCombinationBase' =
                          IF newVariation # "null" THEN vm2.combinationBase
                          ELSE currentCombinationBase
                   /\ variationStartRound' =
                          IF isNew THEN round ELSE variationStartRound
                   /\ variationManager' =
                          IF intro
                          THEN [vm2 EXCEPT !.tutorialsShown =
                                               @ \cup {newVariation}]
                          ELSE vm2
                   /\ state' = IF intro \/ state = "VARIATION_INTRO"
                               THEN "VARIATION_INTRO"
                               ELSE "PATTERN_DISPLAY"
    /\ UNCHANGED <<round, playerInput, timerSeconds, displaySpeed, score,
                   lastReward, ticketManager>>

\* GameEngine.startGame
startGame ==
    /\ startGameBody
    /\ op' = "startGame"
    /\ ret' = "void"
    /\ UNCHANGED tm

\* GameEngine.continueToNextRound
continueToNextRound ==
    /\ startGameBody
    /\ op' = "continueToNextRound"
    /\ ret' = "void"
    /\ UNCHANGED tm

\* GameEngine.startGameWithTickets
startGameWithTickets ==
    /\ op' = "startGameWithTickets"
    /\ IF ticketManager = "null"
       THEN /\ startGameBody
            /\ ret' = "true"
            /\ UNCHANGED tm
       ELSE IF canAffordGame(tm)
       THEN /\ tm' = deductGameCost(tm)
            /\ startGameBody
            /\ ret' = "true"
       ELSE /\ ret' = "false"
            /\ UNCHANGED <<engineVars, variationManager, tm>>

\* GameEngine.startPatternDisplay
startPatternDisplay ==
    /\ state' = "PATTERN_DISPLAY"
    /\ playerInput' = <<>>
    /\ op' = "startPatternDisplay"
    /\ ret' = "void"
    /\ UNCHANGED <<round, pattern, currentVariation, currentCombinationBase,
                   variationStartRound, timerSeconds, displaySpeed, score,
                   lastReward, ticketManager, variationManager, tm>>

\* startPlayerInput that keeps the input entered before.
startPlayerInputKeepsInput ==
    /\ state' = "PLAYER_INPUT"
    /\ timerSeconds' = updateTimerForRound(round)
    /\ op' = "startPlayerInput"
    /\ ret' = "void"
    /\ UNCHANGED <<round, pattern, playerInput, currentVariation,
                   currentCombinationBase, variationStartRound, displaySpeed,
                   score, lastReward, ticketManager, variationManager, tm>>

\* GameEngine.startPlayerInput with updateTimerForRound
startPlayerInput ==
    /\ state' = "PLAYER_INPUT"
    /\ playerInput' = <<>>
    /\ timerSeconds' = updateTimerForRound(round)
    /\ op' = "startPlayerInput"
    /\ ret' = "void"
    /\ UNCHANGED <<round, pattern, currentVariation, currentCombinationBase,
                   variationStartRound, displaySpeed, score, lastReward,
                   ticketManager, variationManager, tm>>

\* failRound that records the highest round but leaves the state alone.
failRoundKeepsState ==
    /\ UNCHANGED state
    /\ tm' = IF ticketManager # "null"
             THEN updateHighestRound(tm, round)
             ELSE tm
    /\ UNCHANGED <<round, displaySpeed, score, lastReward>>

\* failRound that also clears the score.
failRoundClearsScore ==
    /\ state' = "ROUND_FAILED"
    /\ tm' = IF ticketManager # "null"
             THEN updateHighestRound(tm, round)
             ELSE tm
    /\ score' = 0
    /\ UNCHANGED <<round, displaySpeed, lastReward>>

\* GameEngine.failRound
failRound ==
    /\ state' = "ROUND_FAILED"
    /\ tm' = IF ticketManager # "null"
             THEN updateHighestRound(tm, round)
             ELSE tm
    /\ UNCHANGED <<round, displaySpeed, score, lastReward>>

\* completeRound that scores the round but stays in the same round.
completeRoundKeepsRound ==
    /\ state' = "ROUND_COMPLETE"
    /\ IF ticketManager # "null"
       THEN LET reward == calculateReward(tm, round, currentVariation)
            IN  /\ lastReward' = reward
                /\ tm' = updateHighestRound(addReward(tm, reward), round)
                /\ score' = score + MathRound(DoubleMul(
                                         ConfigNumber(reward),
                                         DoubleFromRatio(100, 1)))
       ELSE /\ score' = score + calculateRoundScore(round, currentVariation)
            /\ UNCHANGED <<lastReward, tm>>
    /\ UNCHANGED <<round, displaySpeed>>

\* completeRound that pays the reward of the round to come.
completeRoundPaysNextRound ==
    /\ state' = "ROUND_COMPLETE"
    /\ IF ticketManager # "null"
       THEN LET reward == calculateReward(tm, round + 1, currentVariation)
            IN  /\ lastReward' = reward
                /\ tm' = updateHighestRound(addReward(tm, reward), round)
                /\ score' = score + MathRound(DoubleMul(
                                         ConfigNumber(reward),
                                         DoubleFromRatio(100, 1)))
       ELSE /\ score' = score + calculateRoundScore(round, currentVariation)
            /\ UNCHANGED <<lastReward, tm>>
    /\ round' = round + 1
    /\ displaySpeed' = updateDisplaySpeed(round + 1)

\* GameEngine.completeRound
completeRound ==
    /\ state' = "ROUND_COMPLETE"
    /\ IF ticketManager # "null"
       THEN LET reward == calculateReward(tm, round, currentVariation)
            IN  /\ lastReward' = reward
                /\ tm' = updateHighestRound(addReward(tm, reward), round)
                /\ score' = score + MathRound(DoubleMul(
                                         ConfigNumber(reward),
                                         DoubleFromRatio(100, 1)))
       ELSE /\ score' = score + calculateRoundScore(round, currentVariation)
            /\ UNCHANGED <<lastReward, tm>>
    /\ round' = round + 1
    /\ displaySpeed' = updateDisplaySpeed(round + 1)

\* GameEngine.handlePlayerInput, lines 161-186: the call in PLAYER_INPUT
processPlayerInput(gemstone) ==
    /\ UNCHANGED <<pattern, currentVariation, currentCombinationBase,
                   variationStartRound, timerSeconds, ticketManager,
                   variationManager>>
    /\ IF gemstone # expectedGem(pattern, playerInput, currentVariation)
       THEN /\ failRound
            /\ ret' = "false"
            /\ UNCHANGED playerInput
       ELSE /\ playerInput' = Append(playerInput, gemstone)
            /\ ret' = "true"
            /\ IF Len(playerInput) + 1 = Len(pattern)
               THEN completeRound
               ELSE UNCHANGED <<state, round, displaySpeed, score,
                                lastReward, tm>>

\* handlePlayerInput without the check of the state in line 159.
handlePlayerInputUnguarded(gemstone) ==
    /\ op' = "handlePlayerInput"
    /\ processPlayerInput(gemstone)

\* GameEngine.handlePlayerInput with failRound and completeRound
handlePlayerInput(gemstone) ==
    /\ op' = "handlePlayerInput"
    /\ IF state # "PLAYER_INPUT"
       THEN /\ ret' = "false"
            /\ UNCHANGED <<engineVars, variationManager, tm>>
       ELSE processPlayerInput(gemstone)

\* resetGame that also resets the ticket manager.
resetGameAndTickets ==
    /\ state' = "INITIALIZATION"
    /\ round' = 1
    /\ pattern' = <<>>
    /\ playerInput' = <<>>
    /\ score' = 0
    /\ currentVariation' = "NONE"
    /\ currentCombinationBase' = "null"
    /\ variationStartRound' = 0
    /\ displaySpeed' = updateDisplaySpeed(1)
    /\ lastReward' = 0
    /\ variationManager' = VariationManagerInit
    /\ tm' = tmReset(tm)
    /\ op' = "resetGame"
    /\ ret' = "void"
    /\ UNCHANGED <<timerSeconds, ticketManager>>

\* GameEngine.resetGame with initialize and VariationManager.reset
resetGame ==
    /\ state' = "INITIALIZATION"
    /\ round' = 1
    /\ pattern' = <<>>
    /\ playerInput' = <<>>
    /\ score' = 0
    /\ currentVariation' = "NONE"
    /\ currentCombinationBase' = "null"
    /\ variationStartRound' = 0
    /\ displaySpeed' = updateDisplaySpeed(1)
    /\ lastReward' = 0
    /\ variationManager' = VariationManagerInit
    /\ op' = "resetGame"
    /\ ret' = "void"
    /\ UNCHANGED <<timerSeconds, ticketManager, tm>>

-----------------------------------------------------------------------------
(* TicketManager: operations of the presentation layer                     *)

\* TicketManager.reset, the explicit user action "reset tickets"
reset ==
    /\ tm' = tmReset(tm)
    /\ op' = "reset"
    /\ ret' = "void"
    /\ UNCHANGED <<engineVars, variationManager>>

\* TicketManager.setDifficulty
setDifficulty(difficulty) ==
    /\ tm' = IF difficulty \in DOMAIN tm.config.difficulty_settings
             THEN [tm EXCEPT !.currentDifficulty = difficulty]
             ELSE tm
    /\ op' = "setDifficulty"
    /\ ret' = "void"
    /\ UNCHANGED <<engineVars, variationManager>>

-----------------------------------------------------------------------------
(* The free driver: every public operation may be called in every state    *)

RECURSIVE RandomPatterns(_, _)
\* The sequences of n gems in which only the first b gems vary: the draws of
\* Math.random for the later positions all yield gemTypes[1].
RandomPatterns(n, b) ==
    IF n = 0
    THEN {<<>>}
    ELSE {Append(p, gemTypes[i]) :
             p \in RandomPatterns(n - 1, b),
             i \in 1..(IF n <= b THEN Len(gemTypes) ELSE 1)}

\* The random patterns the free driver is explored with.
FreePatterns ==
    UNION {RandomPatterns(n, MaxFreeRandomGems) : n \in 1..MaxFreePatternLength}

\* The random patterns the driven model is explored with.
PlayPatterns ==
    UNION {RandomPatterns(n, MaxPlayRandomGems) : n \in 1..MaxPlayPatternLength}

\* The random patterns the driver that may start a round again and the
\* driver of the player who makes no mistake are explored with.
AgainPatterns ==
    UNION {RandomPatterns(n, MaxAgainRandomGems) : n \in 1..MaxPlayPatternLength}

\* The patterns a step is explored with: every calibration pattern in round
\* 1, the random patterns given, and the pattern as it is.  The operation
\* taken decides which of them it can produce.
BoundedPattern(randomPatterns) ==
    pattern' \in {pattern} \cup
                 (IF round = 1 THEN generateCalibrationPattern ELSE {}) \cup
                 randomPatterns

\* A step stays within the bounds of the model.
WithinBounds(maxRound) ==
    /\ round' <= maxRound
    /\ tm'.totalEarned <= MaxTotalEarned

Next ==
    \/ BoundedPattern(FreePatterns) /\ startGame
    \/ BoundedPattern(FreePatterns) /\ continueToNextRound
    \/ BoundedPattern(FreePatterns) /\ startGameWithTickets
    \/ startPatternDisplay
    \/ startPlayerInput
    \/ \E gemstone \in GemstoneType :
          handlePlayerInput(gemstone) /\ WithinBounds(MaxRound)
    \/ resetGame

\* An engine constructed without a ticket manager, as "new GameEngine()"
Spec ==
    Init /\ [][Next]_vars

-----------------------------------------------------------------------------
(* The free driver of an engine constructed with a ticket manager          *)

InitTickets ==
    /\ state = "INITIALIZATION"
    /\ round = 1
    /\ pattern = <<>>
    /\ playerInput = <<>>
    /\ currentVariation = "NONE"
    /\ currentCombinationBase = "null"
    /\ variationStartRound = 0
    /\ timerSeconds = initialTimerSeconds
    /\ displaySpeed = updateDisplaySpeed(1)
    /\ score = 0
    /\ lastReward = 0
    /\ ticketManager = "tm"
    /\ variationManager = VariationManagerInit
    /\ tm = TicketManagerInit
    /\ op = "constructor"
    /\ ret = "void"

NextTickets ==
    \/ BoundedPattern(FreePatterns) /\ startGame
    \/ BoundedPattern(FreePatterns) /\ continueToNextRound
    \/ BoundedPattern(FreePatterns) /\ startGameWithTickets
    \/ startPatternDisplay
    \/ startPlayerInput
    \/ \E gemstone \in GemstoneType :
          handlePlayerInput(gemstone) /\ WithinBounds(MaxTicketRound)
    \/ resetGame
    \/ reset

SpecTickets ==
    InitTickets /\ [][NextTickets]_vars

-----------------------------------------------------------------------------
(* The driven engine: the cycle the tests and the GameBoard follow         *)
(* (startGame, startPatternDisplay, startPlayerInput, one submission per   *)
(* gem, resetGame after a failed round), without a ticket manager          *)

drivenStartGame ==
    /\ state \in {"INITIALIZATION", "ROUND_COMPLETE"}
    /\ BoundedPattern(PlayPatterns)
    /\ startGame

drivenStartPatternDisplay ==
    /\ state \in {"CALIBRATION", "VARIATION_INTRO"}
    /\ startPatternDisplay

drivenStartPlayerInput ==
    /\ state = "PATTERN_DISPLAY"
    /\ startPlayerInput

drivenHandlePlayerInput(gemstone) ==
    /\ state = "PLAYER_INPUT"
    /\ handlePlayerInput(gemstone)
    /\ WithinBounds(MaxPlayRound)

drivenResetGame ==
    /\ state = "ROUND_FAILED"
    /\ resetGame

NextPlay ==
    \/ drivenStartGame
    \/ drivenStartPatternDisplay
    \/ drivenStartPlayerInput
    \/ \E gemstone \in GemstoneType : drivenHandlePlayerInput(gemstone)
    \/ drivenResetGame

SpecPlay ==
    Init /\ [][NextPlay]_vars

-----------------------------------------------------------------------------
(* The TicketManager on its own: calculateReward for any round and         *)
(* variation, under any configured difficulty                              *)

\* A TicketManager as constructed, with the arguments of the calls to come
\* held in round and currentVariation.
InitReward ==
    /\ state = "INITIALIZATION"
    /\ round \in 1..MaxRewardRound
    /\ pattern = <<>>
    /\ playerInput = <<>>
    /\ currentVariation \in GameVariation
    /\ currentCombinationBase = "null"
    /\ variationStartRound = 0
    /\ timerSeconds = initialTimerSeconds
    /\ displaySpeed = updateDisplaySpeed(1)
    /\ score = 0
    /\ lastReward = 0
    /\ ticketManager = "tm"
    /\ variationManager = VariationManagerInit
    /\ tm = TicketManagerInit
    /\ op = "constructor"
    /\ ret = "void"

\* A call of TicketManager.calculateReward(round, currentVariation); its
\* result is held in lastReward.
calculateRewardCall ==
    /\ lastReward' = calculateReward(tm, round, currentVariation)
    /\ op' = "calculateReward"
    /\ ret' = "void"
    /\ UNCHANGED <<state, round, pattern, playerInput, currentVariation,
                   currentCombinationBase, variationStartRound, timerSeconds,
                   displaySpeed, score, ticketManager, variationManager, tm>>

NextReward ==
    \/ calculateRewardCall
    \/ \E difficulty \in DOMAIN difficulty_settings \cup {"unknown"} :
          setDifficulty(difficulty)

SpecReward ==
    InitReward /\ [][NextReward]_vars

-----------------------------------------------------------------------------
(* The TicketManager on its own: its balance and statistics under direct   *)
(* calls                                                                   *)

\* The amounts handed to addReward: 9.00 and 10000.00
RewardAmounts ==
    {900, 1000000}

\* A call of TicketManager.deductGameCost
deductGameCostCall ==
    /\ IF canAffordGame(tm)
       THEN /\ tm' = deductGameCost(tm)
            /\ ret' = "true"
       ELSE /\ tm' = tm
            /\ ret' = "false"
    /\ op' = "deductGameCost"
    /\ UNCHANGED <<engineVars, variationManager>>

\* A call of TicketManager.addReward(amount)
addRewardCall(amount) ==
    /\ tm' = addReward(tm, amount)
    /\ op' = "addReward"
    /\ ret' = "void"
    /\ UNCHANGED <<engineVars, variationManager>>

\* A call of TicketManager.updateHighestRound(r)
updateHighestRoundCall(r) ==
    /\ tm' = updateHighestRound(tm, r)
    /\ op' = "updateHighestRound"
    /\ ret' = "void"
    /\ UNCHANGED <<engineVars, variationManager>>

\* A call of TicketManager.getRTP; ret holds the quotient returned, as a pair
getRTPCall ==
    /\ ret' = getRTP(tm)
    /\ op' = "getRTP"
    /\ UNCHANGED <<engineVars, variationManager, tm>>

\* A step of the TicketManager on its own stays within the bounds; the
\* numbers of rewards of 10000.00 and of 9.00 are read off totalEarned.
WithinEconomyBounds ==
    /\ tm'.gamesPlayed <= MaxGamesPlayed
    /\ tm'.totalEarned \div 1000000 <= MaxLargeRewards
    /\ (tm'.totalEarned % 1000000) \div 900 <= MaxSmallRewards

NextEconomy ==
    \/ deductGameCostCall /\ WithinEconomyBounds
    \/ \E amount \in RewardAmounts :
          addRewardCall(amount) /\ WithinEconomyBounds
    \/ \E r \in 0..MaxHighestRound : updateHighestRoundCall(r)
    \/ getRTPCall
    \/ reset
    \/ \E difficulty \in DOMAIN difficulty_settings \cup {"unknown"} :
          setDifficulty(difficulty)

SpecEconomy ==
    InitTickets /\ [][NextEconomy]_vars

-----------------------------------------------------------------------------
(* The TicketManager constructed with a configuration that has a gap       *)

\* The bonus tables tried: the one of createMockConfig, and each table got
\* from it by leaving one key out or by setting one bonus to 0.
BonusTables ==
    {variation_bonuses}
    \cup {[v \in GameVariation \ {k} |-> variation_bonuses[v]] :
             k \in GameVariation}
    \cup {[variation_bonuses EXCEPT ![k] = 0] : k \in GameVariation}

\* The difficulty tables tried: the one of createMockConfig, the one without
\* the default difficulty, and the one whose default difficulty pays 0.
DifficultyTables ==
    {difficulty_settings,
     [d \in {"easy", "hard"} |-> difficulty_settings[d]],
     [difficulty_settings EXCEPT !["normal"] = 0]}

\* A TicketManager as constructed with one of these configurations, with
\* the arguments of the calls to come held in round and currentVariation.
InitConfig ==
    /\ state = "INITIALIZATION"
    /\ round \in 1..MaxConfigRound
    /\ pattern = <<>>
    /\ playerInput = <<>>
    /\ currentVariation \in GameVariation
    /\ currentCombinationBase = "null"
    /\ variationStartRound = 0
    /\ timerSeconds = initialTimerSeconds
    /\ displaySpeed = updateDisplaySpeed(1)
    /\ score = 0
    /\ lastReward = 0
    /\ ticketManager = "tm"
    /\ variationManager = VariationManagerInit
    /\ tm \in {TicketManagerNew([round_multipliers |-> round_multipliers,
                                  variation_bonuses |-> b,
                                  difficulty_settings |-> d]) :
                   b \in BonusTables, d \in DifficultyTables}
    /\ op = "constructor"
    /\ ret = "void"

SpecConfig ==
    InitConfig /\ [][NextReward]_vars

-----------------------------------------------------------------------------
(* The TicketManager constructed with another 20-entry multiplier table    *)

\* The multiplier tables tried: the one of createMockConfig, and the tables
\* got from it by setting the 20th entry to 7.50 or to 9.00.
MultiplierTables ==
    {round_multipliers,
     [round_multipliers EXCEPT ![20] = 750],
     [round_multipliers EXCEPT ![20] = 900]}

\* A TicketManager as constructed with one of these tables, with the
\* arguments of the calls to come held in round and currentVariation.
InitMultipliers ==
    /\ state = "INITIALIZATION"
    /\ round \in 1..MaxMultiplierRound
    /\ pattern = <<>>
    /\ playerInput = <<>>
    /\ currentVariation \in GameVariation
    /\ currentCombinationBase = "null"
    /\ variationStartRound = 0
    /\ timerSeconds = initialTimerSeconds
    /\ displaySpeed = updateDisplaySpeed(1)
    /\ score = 0
    /\ lastReward = 0
    /\ ticketManager = "tm"
    /\ variationManager = VariationManagerInit
    /\ tm \in {TicketManagerNew([createMockConfig
                                    EXCEPT !.round_multipliers = m]) :
                   m \in MultiplierTables}
    /\ op = "constructor"
    /\ ret = "void"

SpecMultipliers ==
    InitMultipliers /\ [][NextReward]_vars

-----------------------------------------------------------------------------
(* The driven engine whose driver may start a round again: the cycle of    *)
(* SpecPlay, and further calls of startGame or continueToNextRound right   *)
(* after the call that started the round                                   *)

drivenStartAgain ==
    /\ op \in {"startGame", "continueToNextRound"}
    /\ BoundedPattern(AgainPatterns)
    /\ \/ startGame
       \/ continueToNextRound

drivenAgainStartGame ==
    /\ state \in {"INITIALIZATION", "ROUND_COMPLETE"}
    /\ BoundedPattern(AgainPatterns)
    /\ startGame

drivenAgainHandlePlayerInput(gemstone) ==
    /\ state = "PLAYER_INPUT"
    /\ handlePlayerInput(gemstone)
    /\ WithinBounds(MaxAgainRound)

NextAgain ==
    \/ drivenAgainStartGame
    \/ drivenStartAgain
    \/ drivenStartPatternDisplay
    \/ drivenStartPlayerInput
    \/ \E gemstone \in GemstoneType : drivenAgainHandlePlayerInput(gemstone)
    \/ drivenResetGame

SpecAgain ==
    Init /\ [][NextAgain]_vars

-----------------------------------------------------------------------------
(* The driven engine with a player who makes no mistake: the cycle         *)
(* startGame, startPatternDisplay, startPlayerInput, and the expected gem  *)
(* at every submission.  The driver and the player always take their next  *)
(* step: the timers of the driver fire, and the player goes on playing.    *)

perfectStartGame ==
    /\ state \in {"INITIALIZATION", "ROUND_COMPLETE"}
    /\ round < MaxPerfectRound
    /\ BoundedPattern(AgainPatterns)
    /\ startGame

perfectHandlePlayerInput ==
    /\ state = "PLAYER_INPUT"
    /\ Len(playerInput) < Len(pattern)
    /\ handlePlayerInput(getExpectedInput(pattern, currentVariation)
                             [Len(playerInput) + 1])

NextPerfect ==
    \/ perfectStartGame
    \/ drivenStartPatternDisplay
    \/ drivenStartPlayerInput
    \/ perfectHandlePlayerInput

SpecPerfect ==
    Init /\ [][NextPerfect]_vars /\ WF_vars(NextPerfect)

-----------------------------------------------------------------------------
(* The GameBoard: the presentation driver with its ticket manager.  Each   *)
(* action is one handler or callback of the component; the ticket manager  *)
(* of useTicketManager is attached to the engine by useGameEngine.         *)

\* GameBoard.handleTimeout: the engine is handed an EMERALD.  ret holds what
\* handlePlayerInput returned.
handleTimeout ==
    /\ op' = "handleTimeout"
    /\ IF state # "PLAYER_INPUT"
       THEN /\ ret' = "false"
            /\ UNCHANGED <<engineVars, variationManager, tm>>
       ELSE processPlayerInput("EMERALD")

\* GameBoard.handleGemClick with useGemClickHandler.handleGemClick and
\* useGameEngine.handleGemClick, for a click while canInput holds and the
\* pattern is not yet complete.  ret holds what handlePlayerInput returned.
handleGemClick(gemType) ==
    /\ Len(playerInput) < Len(pattern)
    /\ op' = "handleGemClick"
    /\ IF state # "PLAYER_INPUT"
       THEN /\ ret' = "false"
            /\ UNCHANGED <<engineVars, variationManager, tm>>
       ELSE processPlayerInput(gemType)

\* GameBoard.resetTicketsAndGame: resetTickets of useTicketManager, then
\* GameBoard.resetGame
resetTicketsAndGame ==
    /\ state' = "INITIALIZATION"
    /\ round' = 1
    /\ pattern' = <<>>
    /\ playerInput' = <<>>
    /\ score' = 0
    /\ currentVariation' = "NONE"
    /\ currentCombinationBase' = "null"
    /\ variationStartRound' = 0
    /\ displaySpeed' = updateDisplaySpeed(1)
    /\ lastReward' = 0
    /\ variationManager' = VariationManagerInit
    /\ tm' = tmReset(tm)
    /\ op' = "resetTicketsAndGame"
    /\ ret' = "void"
    /\ UNCHANGED <<timerSeconds, ticketManager>>

\* GameBoard.startGame with useGameEngine.startGame: the button of the main
\* menu, and onRoundComplete, which the click that completed a round
\* schedules.
boardStartGame ==
    /\ \/ state = "INITIALIZATION"
       \/ state = "ROUND_COMPLETE" /\ op = "handleGemClick"
    /\ BoundedPattern(PlayPatterns)
    /\ startGameWithTickets

\* The timer of the variation intro set by GameBoard.startGame
boardIntroShown ==
    /\ state = "VARIATION_INTRO"
    /\ startPatternDisplay

\* onPatternComplete of GameBoard.displayPattern, called when the pattern
\* has been shown
boardPatternShown ==
    /\ state \in {"CALIBRATION", "PATTERN_DISPLAY"}
    /\ startPlayerInput

\* A click on a gem during the player's turn
boardGemClick(gemType) ==
    /\ state = "PLAYER_INPUT"
    /\ handleGemClick(gemType)

\* The countdown started by startTimerWithTimeout runs out during the
\* player's turn
boardTimeout ==
    /\ state = "PLAYER_INPUT"
    /\ handleTimeout

\* onPlayAgain of the GameOverModal
boardPlayAgain ==
    /\ state = "ROUND_FAILED"
    /\ resetGame

\* onResetTickets of the MainMenu
boardResetTickets ==
    /\ state = "INITIALIZATION"
    /\ resetTicketsAndGame

NextBoard ==
    \/ boardStartGame
    \/ boardIntroShown
    \/ boardPatternShown
    \/ \E gemType \in GemstoneType : boardGemClick(gemType)
    \/ boardTimeout
    \/ boardPlayAgain
    \/ boardResetTickets

\* The GameBoard with the ticket manager loaded.  The starting balance pays
\* for two starts, and the rewards of the first rounds for none: the rounds
\* a session reaches are bounded by the balance.
SpecBoard ==
    InitTickets /\ [][NextBoard]_vars

-----------------------------------------------------------------------------
(* The ledger of the TicketManager in the numbers of the language: balance, *)
(* totalEarned and totalSpent are binary64 numbers, and every operation on *)
(* them rounds as the language does.  The operations of the TicketManager  *)
(* and of the engine that read or write these three fields are given again *)
(* for this ledger; all others are the ones above.                         *)

CostToPlay ==
    ConfigNumber(cost_to_play)

MaxBalance ==
    ConfigNumber(max_balance)

MinBalance ==
    ConfigNumber(min_balance)

StartingBalance ==
    ConfigNumber(starting_balance)

\* The TicketManager constructor
TicketManagerNewBinary64(config) ==
    [config |-> config,
     balance |-> StartingBalance, totalEarned |-> DoubleZero,
     totalSpent |-> DoubleZero,
     gamesPlayed |-> 0, highestRound |-> 0,
     currentDifficulty |-> default_difficulty]

\* TicketManager.canAffordGame
canAffordGameBinary64(t) ==
    ~DoubleLess(t.balance, CostToPlay)

\* TicketManager.deductGameCost: the state after a successful deduction
deductGameCostBinary64(t) ==
    [t EXCEPT !.balance = DoubleSub(t.balance, CostToPlay),
              !.totalSpent = DoubleAdd(t.totalSpent, CostToPlay),
              !.gamesPlayed = t.gamesPlayed + 1]

\* TicketManager.addReward, for an amount of whole cents as calculateReward
\* returns it
addRewardBinary64(t, amount) ==
    [t EXCEPT !.balance = MathMin(DoubleAdd(t.balance, ConfigNumber(amount)),
                                  MaxBalance),
              !.totalEarned = DoubleAdd(t.totalEarned, ConfigNumber(amount))]

\* TicketManager.reset
tmResetBinary64(t) ==
    [t EXCEPT !.balance = StartingBalance, !.totalEarned = DoubleZero,
              !.totalSpent = DoubleZero, !.gamesPlayed = 0,
              !.highestRound = 0]

\* GameEngine.startGameWithTickets
startGameWithTicketsBinary64 ==
    /\ op' = "startGameWithTickets"
    /\ IF ticketManager = "null"
       THEN /\ startGameBody
            /\ ret' = "true"
            /\ UNCHANGED tm
       ELSE IF canAffordGameBinary64(tm)
       THEN /\ tm' = deductGameCostBinary64(tm)
            /\ startGameBody
            /\ ret' = "true"
       ELSE /\ ret' = "false"
            /\ UNCHANGED <<engineVars, variationManager, tm>>

\* GameEngine.completeRound
completeRoundBinary64 ==
    /\ state' = "ROUND_COMPLETE"
    /\ IF ticketManager # "null"
       THEN LET reward == calculateReward(tm, round, currentVariation)
            IN  /\ lastReward' = reward
                /\ tm' = updateHighestRound(addRewardBinary64(tm, reward),
                                            round)
                /\ score' = score + MathRound(DoubleMul(
                                         ConfigNumber(reward),
                                         DoubleFromRatio(100, 1)))
       ELSE /\ score' = score + calculateRoundScore(round, currentVariation)
            /\ UNCHANGED <<lastReward, tm>>
    /\ round' = round + 1
    /\ displaySpeed' = updateDisplaySpeed(round + 1)

\* GameEngine.handlePlayerInput with failRound and completeRound
handlePlayerInputBinary64(gemstone) ==
    /\ op' = "handlePlayerInput"
    /\ IF state # "PLAYER_INPUT"
       THEN /\ ret' = "false"
            /\ UNCHANGED <<engineVars, variationManager, tm>>
       ELSE /\ UNCHANGED <<pattern, currentVariation, currentCombinationBase,
                           variationStartRound, timerSeconds, ticketManager,
                           variationManager>>
            /\ IF gemstone # expectedGem(pattern, playerInput,
                                         currentVariation)
               THEN /\ failRound
                    /\ ret' = "false"
                    /\ UNCHANGED playerInput
               ELSE /\ playerInput' = Append(playerInput, gemstone)
                    /\ ret' = "true"
                    /\ IF Len(playerInput) + 1 = Len(pattern)
                       THEN completeRoundBinary64
                       ELSE UNCHANGED <<state, round, displaySpeed, score,
                                        lastReward, tm>>

\* TicketManager.reset, the explicit user action "reset tickets"
resetBinary64 ==
    /\ tm' = tmResetBinary64(tm)
    /\ op' = "reset"
    /\ ret' = "void"
    /\ UNCHANGED <<engineVars, variationManager>>

\* An engine constructed with a ticket manager
InitLedger ==
    /\ state = "INITIALIZATION"
    /\ round = 1
    /\ pattern = <<>>
    /\ playerInput = <<>>
    /\ currentVariation = "NONE"
    /\ currentCombinationBase = "null"
    /\ variationStartRound = 0
    /\ timerSeconds = initialTimerSeconds
    /\ displaySpeed = updateDisplaySpeed(1)
    /\ score = 0
    /\ lastReward = 0
    /\ ticketManager = "tm"
    /\ variationManager = VariationManagerInit
    /\ tm = TicketManagerNewBinary64(createMockConfig)
    /\ op = "constructor"
    /\ ret = "void"

ledgerStartGameWithTickets ==
    /\ state \in {"INITIALIZATION", "ROUND_COMPLETE"}
    /\ BoundedPattern(AgainPatterns)
    /\ startGameWithTicketsBinary64

ledgerHandlePlayerInput(gemstone) ==
    /\ state = "PLAYER_INPUT"
    /\ handlePlayerInputBinary64(gemstone)

ledgerReset ==
    /\ state = "INITIALIZATION"
    /\ resetBinary64

\* The sessions of the engine with its ticket manager: every round is
\* started by startGameWithTickets, as the GameBoard starts it.  The
\* starting balance pays for two starts, and the rewards of the first rounds
\* for none: the rounds a session reaches are bounded by the balance.
NextLedger ==
    \/ ledgerStartGameWithTickets
    \/ drivenStartPatternDisplay
    \/ drivenStartPlayerInput
    \/ \E gemstone \in GemstoneType : ledgerHandlePlayerInput(gemstone)
    \/ drivenResetGame
    \/ ledgerReset

SpecLedger ==
    InitLedger /\ [][NextLedger]_vars

-----------------------------------------------------------------------------
(* Properties of submitInput (GameEngine.handlePlayerInput)                *)

ReverseVariations ==
    {"REVERSE", "REVERSE_COMBINATION"}

\* The gem a submission has to match, as the description of submitInput
\* states it: pattern[|playerInput|] (0-based), or
\* pattern[|pattern| - 1 - |playerInput|] under a reverse variation.
ExpectedNext ==
    IF Len(playerInput) >= Len(pattern)
    THEN "undefined"
    ELSE IF currentVariation \in ReverseVariations
    THEN pattern[Len(pattern) - Len(playerInput)]
    ELSE pattern[Len(playerInput) + 1]

\* C1: in PLAYER_INPUT, submitting the expected gem (by position, counted
\* from the end under REVERSE and REVERSE_COMBINATION) returns true and
\* appends exactly that gem to playerInput, whether or not the submission
\* completes the pattern.
C1_CorrectInputAppends ==
    [][\A g \in GemstoneType :
          (state = "PLAYER_INPUT" /\ g = ExpectedNext /\ handlePlayerInput(g))
          => /\ ret' = "true"
             /\ playerInput' = Append(playerInput, g)
             /\ Len(playerInput') = Len(playerInput) + 1]_vars

\* C1 witness: a correct submission under REVERSE was accepted and the
\* input phase goes on.
C1_Witness ==
    /\ op = "handlePlayerInput"
    /\ ret = "true"
    /\ state = "PLAYER_INPUT"
    /\ currentVariation = "REVERSE"
    /\ Len(playerInput) >= 1
    /\ pattern # Reverse(pattern)

\* C2: in PLAYER_INPUT, submitting a gem other than the expected one returns
\* false, sets the state to ROUND_FAILED and leaves playerInput, pattern,
\* round, score and the current variation unchanged.
C2_WrongInputFails ==
    [][\A g \in GemstoneType :
          (state = "PLAYER_INPUT" /\ g # ExpectedNext /\ handlePlayerInput(g))
          => /\ ret' = "false"
             /\ state' = "ROUND_FAILED"
             /\ UNCHANGED <<playerInput, pattern, round, score,
                            currentVariation>>]_vars

\* C2 witness: a wrong gem was submitted after some correct ones under
\* REVERSE_COMBINATION; the accepted gems are still there.
C2_Witness ==
    /\ op = "handlePlayerInput"
    /\ ret = "false"
    /\ state = "ROUND_FAILED"
    /\ currentVariation = "REVERSE_COMBINATION"
    /\ Len(playerInput) >= 1

\* C3: the correct submission that fills playerInput up to the length of the
\* pattern sets the state to ROUND_COMPLETE and adds exactly 1 to round; round
\* changes in no other way except by resetGame, which sets it to 1; round is
\* always at least 1.
C3_RoundGrowsOnCompletionOnly ==
    /\ [](round >= 1)
    /\ [][\A g \in GemstoneType :
            (/\ state = "PLAYER_INPUT"
             /\ g = ExpectedNext
             /\ Len(playerInput) + 1 = Len(pattern)
             /\ handlePlayerInput(g))
            => (state' = "ROUND_COMPLETE" /\ round' = round + 1)]_vars
    /\ [][round' # round
            => \/ (op' = "resetGame" /\ round' = 1)
               \/ /\ op' = "handlePlayerInput"
                  /\ ret' = "true"
                  /\ state = "PLAYER_INPUT"
                  /\ state' = "ROUND_COMPLETE"
                  /\ Len(playerInput') = Len(pattern)
                  /\ round' = round + 1]_vars

\* C3 witness: the second round has just been completed.
C3_Witness ==
    /\ op = "handlePlayerInput"
    /\ ret = "true"
    /\ state = "ROUND_COMPLETE"
    /\ round = 3
    /\ Len(playerInput) = Len(pattern)

IsPrefix(a, b) ==
    /\ Len(a) <= Len(b)
    /\ \A i \in 1..Len(a) : a[i] = b[i]

\* C4: under REVERSE and REVERSE_COMBINATION the submissions of an input
\* phase reach ROUND_COMPLETE exactly when they spell reverse(pattern): every
\* accepted input is a prefix of the reversed pattern, a submission completes
\* the round exactly when it finishes the reversed pattern and fails the
\* round exactly when it departs from it, and the pattern entered in its
\* original order completes the round only if it is a palindrome.
C4_ReverseOrderRequired ==
    /\ []((currentVariation \in ReverseVariations /\ state = "PLAYER_INPUT")
            => /\ IsPrefix(playerInput, Reverse(pattern))
               /\ Len(playerInput) < Len(pattern))
    /\ []((currentVariation \in ReverseVariations /\ state = "ROUND_COMPLETE")
            => playerInput = Reverse(pattern))
    /\ [][\A g \in GemstoneType :
            (/\ currentVariation \in ReverseVariations
             /\ state = "PLAYER_INPUT"
             /\ handlePlayerInput(g))
            => /\ (state' = "ROUND_COMPLETE")
                     <=> (Append(playerInput, g) = Reverse(pattern))
               /\ (state' = "ROUND_FAILED")
                     <=> (g # Reverse(pattern)[Len(playerInput) + 1])
               /\ (state' = "ROUND_COMPLETE" /\ playerInput' = pattern)
                     => pattern = Reverse(pattern)
               /\ (IsPrefix(playerInput, pattern)
                     /\ g = pattern[Len(playerInput) + 1]
                     /\ g # Reverse(pattern)[Len(playerInput) + 1])
                     => state' = "ROUND_FAILED"]_vars

\* C4 witness: a pattern that is no palindrome was completed under REVERSE.
C4_Witness ==
    /\ op = "handlePlayerInput"
    /\ state = "ROUND_COMPLETE"
    /\ currentVariation = "REVERSE"
    /\ pattern # Reverse(pattern)
    /\ playerInput = Reverse(pattern)

ForwardVariations ==
    {"NONE", "GHOST", "SPEED_CHAOS", "COLOR_SHUFFLE", "SELECTIVE_ATTENTION"}

C6_InputRejectedOutsidePlayerInput ==
    [][(op' = "handlePlayerInput" /\ state # "PLAYER_INPUT")
          => /\ ret' = "false"
             /\ UNCHANGED <<state, round, pattern, playerInput, score,
                            lastReward, currentVariation,
                            currentCombinationBase, timerSeconds,
                            displaySpeed, variationManager, tm>>]_vars

\* C6 witness: a submission was rejected in ROUND_COMPLETE, with a reward
\* already earned.
C6_Witness ==
    /\ op = "handlePlayerInput"
    /\ ret = "false"
    /\ state = "ROUND_COMPLETE"
    /\ tm.totalEarned > 0

-----------------------------------------------------------------------------
(* Properties of the transitions                                           *)

\* C7: once the state is ROUND_FAILED it stays ROUND_FAILED under every
\* operation other than resetGame, and resetGame leads to INITIALIZATION.
C7_RoundFailedIsTerminal ==
    [][state = "ROUND_FAILED"
          => IF op' = "resetGame"
             THEN state' = "INITIALIZATION"
             ELSE state' = "ROUND_FAILED"]_vars

\* C8: startGame, startPatternDisplay and startPlayerInput called outside
\* their source states (startPatternDisplay or startPlayerInput in
\* INITIALIZATION, ROUND_COMPLETE or ROUND_FAILED, startGame in PLAYER_INPUT)
\* change nothing of the session.
C8_IllegalTransitionsRejected ==
    [][(\/ /\ op' \in {"startPatternDisplay", "startPlayerInput"}
           /\ state \in {"INITIALIZATION", "ROUND_COMPLETE", "ROUND_FAILED"}
        \/ /\ op' = "startGame"
           /\ state = "PLAYER_INPUT")
          => UNCHANGED <<state, round, pattern, playerInput, timerSeconds,
                         currentVariation>>]_vars

\* C9: resetGame returns the session to the state of a freshly constructed
\* engine: INITIALIZATION, round 1, empty pattern and input, score 0,
\* lastReward 0, no variation and no combination base, timerSeconds and
\* displaySpeed at their initial values, and a cleared variation manager.
C9_ResetRestoresFreshState ==
    [][op' = "resetGame"
          => /\ state' = "INITIALIZATION"
             /\ round' = 1
             /\ pattern' = <<>>
             /\ playerInput' = <<>>
             /\ score' = 0
             /\ lastReward' = 0
             /\ currentVariation' = "NONE"
             /\ currentCombinationBase' = "null"
             /\ variationStartRound' = 0
             /\ timerSeconds' = initialTimerSeconds
             /\ displaySpeed' = 1000
             /\ variationManager' =
                   [currentVariation |-> "null", previousVariation |-> "null",
                    combinationBase |-> "null", tutorialsShown |-> {},
                    variationStartRound |-> 0]]_vars

\* C10: resetGame, startGame, continueToNextRound, startPatternDisplay,
\* startPlayerInput and every accepted submission that does not complete the
\* pattern leave the economy (balance, totalEarned, totalSpent, gamesPlayed,
\* highestRound, difficulty) unchanged; the engine changes it only in
\* startGameWithTickets and in the submissions that complete or fail a round
\* (TicketManager.reset is the user's own action).
C10_EngineLeavesEconomyAlone ==
    /\ [][op' \in {"resetGame", "startGame", "continueToNextRound",
                   "startPatternDisplay", "startPlayerInput"}
            => tm' = tm]_vars
    /\ [][(op' = "handlePlayerInput" /\ ret' = "true"
             /\ state' = "PLAYER_INPUT")
            => tm' = tm]_vars
    /\ [][tm' # tm
            => \/ op' = "startGameWithTickets"
               \/ /\ op' = "handlePlayerInput"
                  /\ state = "PLAYER_INPUT"
                  /\ state' \in {"ROUND_COMPLETE", "ROUND_FAILED"}
               \/ op' = "reset"]_vars

\* C10 witness: the session was reset after a game was paid for and a reward
\* earned, and the economy still shows both.
C10_Witness ==
    /\ op = "resetGame"
    /\ state = "INITIALIZATION"
    /\ tm.totalSpent > 0
    /\ tm.totalEarned > 0
    /\ tm.highestRound > 0
    /\ tm.gamesPlayed > 0

-----------------------------------------------------------------------------
(* Properties of start (GameEngine.startGame) and of the round parameters  *)

\* The operations that start a round.
StartOps ==
    {"startGame", "continueToNextRound", "startGameWithTickets"}

\* A round was started by the step (a refused startGameWithTickets starts
\* nothing).
Started ==
    op' \in StartOps /\ ret' # "false"

\* C11: after a start in round r >= 2 the pattern has exactly
\* 4 + floor((r - 1) / 3) gems, each one of the 4 gem symbols, and the state
\* is PATTERN_DISPLAY or VARIATION_INTRO; after a start in round 1 the
\* pattern has exactly 4 gems.
C11_PatternLength ==
    [][Started
         => /\ Len(pattern') =
                   IF round = 1 THEN 4 ELSE 4 + ((round - 1) \div 3)
            /\ \A i \in 1..Len(pattern') :
                   pattern'[i] \in {"EMERALD", "TRILLION", "MARQUISE",
                                    "CUSHION"}
            /\ round >= 2
                   => state' \in {"PATTERN_DISPLAY", "VARIATION_INTRO"}]_vars

\* C11 witness: round 17 was started into VARIATION_INTRO with a pattern of
\* 9 gems that are not all the same.
C11_Witness ==
    /\ op = "startGame"
    /\ round = 17
    /\ state = "VARIATION_INTRO"
    /\ Len(pattern) = 9
    /\ pattern[1] # pattern[2]

\* C12: a start in round 1 sets the state to CALIBRATION and produces a
\* pattern in which each of the 4 gem symbols occurs exactly once.
C12_CalibrationIsPermutation ==
    [][(Started /\ round = 1)
         => /\ state' = "CALIBRATION"
            /\ Len(pattern') = 4
            /\ \A g \in GemstoneType :
                   Cardinality({i \in 1..4 : pattern'[i] = g}) = 1]_vars

\* C12 witness: round 1 was started with the shuffle that reverses the gems.
C12_Witness ==
    /\ op \in StartOps
    /\ round = 1
    /\ state = "CALIBRATION"
    /\ pattern = <<"CUSHION", "MARQUISE", "TRILLION", "EMERALD">>

\* C13: in every reachable state displaySpeed is 1000 in round 1 and
\* max(300, 750 - 25 * round) otherwise (so it follows the round number as
\* soon as a completion increments it); it is never below 300 and never
\* increases when the round grows from 2 onward.
C13_DisplaySpeedFollowsRound ==
    /\ [](displaySpeed = IF round = 1 THEN 1000
                         ELSE IF 750 - 25 * round > 300
                         THEN 750 - 25 * round
                         ELSE 300)
    /\ [](displaySpeed >= 300)
    /\ [][(round >= 2 /\ round' > round)
            => displaySpeed' <= displaySpeed]_vars

\* C13 witness: round 18 was completed, and the speed of round 19 is held at
\* the floor of 300 ms.
C13_Witness ==
    /\ op = "handlePlayerInput"
    /\ state = "ROUND_COMPLETE"
    /\ round = 19
    /\ displaySpeed = 300

\* C14: whenever the state is PLAYER_INPUT, timerSeconds is 10 s in round 1
\* and max(3, 8 - 0.25 * round) s otherwise, for the current round; the
\* timer of an input phase is never below 3 s, and from round 2 onward it
\* never increases from one input phase to a later one of the same game.
C14_TimerFollowsRound ==
    /\ [](state = "PLAYER_INPUT"
            => /\ timerSeconds = IF round = 1 THEN 1000
                                 ELSE IF 800 - 25 * round > 300
                                 THEN 800 - 25 * round
                                 ELSE 300
               /\ timerSeconds >= 300)
    /\ [][(op' = "startPlayerInput" /\ round >= 2)
            => timerSeconds' <= timerSeconds]_vars

\* C14 witness: the input phase of round 21 runs with the timer held at the
\* floor of 3 s.
C14_Witness ==
    /\ state = "PLAYER_INPUT"
    /\ round = 21
    /\ timerSeconds = 300
    /\ Len(playerInput) >= 1

-----------------------------------------------------------------------------
(* Properties of the variation selection                                   *)

\* The rounds at which a variation is selected: 2, 5, 8, 11, 14, ...
IsSelectionRound(r) ==
    r >= 2 /\ (r - 2) % 3 = 0

\* C15: with one start per round, the variation chosen at a selection round
\* s stays the current variation through the rounds s, s + 1 and s + 2 (it
\* changes only at the start of a selection round, or at a reset), and the
\* variation chosen at s + 3 differs from it whenever the pool unlocked at
\* s + 3 has more than one member (rounds 5 to 16).
C15_VariationPersistsThenChanges ==
    /\ [][(Started /\ round >= 2 /\ ~IsSelectionRound(round))
            => currentVariation' = currentVariation]_vars
    /\ [][currentVariation' # currentVariation
            => \/ Started /\ IsSelectionRound(round)
               \/ op' = "resetGame"]_vars
    /\ [][(Started /\ IsSelectionRound(round) /\ round \in 5..16)
            => currentVariation' # currentVariation]_vars

\* C15 witness: the third round of the window selected at round 8 is being
\* played under the variation GHOST, which had also been the variation of
\* rounds 2 to 4.
C15_Witness ==
    /\ round = 10
    /\ state = "PLAYER_INPUT"
    /\ currentVariation = "GHOST"
    /\ variationStartRound = 8

\* C16: after a start in round r >= 2 the current variation belongs to the
\* unlock pool of r: {REVERSE} in rounds 2-4, REVERSE and GHOST in 5-7, plus
\* SPEED_CHAOS in 8-10, plus COLOR_SHUFFLE in 11-13, plus
\* SELECTIVE_ATTENTION in 14-16, and {REVERSE_COMBINATION} from round 17.
C16_VariationFromUnlockPool ==
    [][(Started /\ round >= 2)
         => currentVariation' \in
               IF round <= 4 THEN {"REVERSE"}
               ELSE IF round <= 7 THEN {"REVERSE", "GHOST"}
               ELSE IF round <= 10 THEN {"REVERSE", "GHOST", "SPEED_CHAOS"}
               ELSE IF round <= 13 THEN {"REVERSE", "GHOST", "SPEED_CHAOS",
                                         "COLOR_SHUFFLE"}
               ELSE IF round <= 16 THEN {"REVERSE", "GHOST", "SPEED_CHAOS",
                                         "COLOR_SHUFFLE",
                                         "SELECTIVE_ATTENTION"}
               ELSE {"REVERSE_COMBINATION"}]_vars

\* C17: every selection made in a round >= 17 (rounds 17, 20, ...) makes
\* REVERSE_COMBINATION the current variation with a combination base among
\* GHOST, SPEED_CHAOS, COLOR_SHUFFLE and SELECTIVE_ATTENTION that differs
\* from the base of the window before; and the engine's combination base is
\* null whenever its current variation is not REVERSE_COMBINATION.
C17_CombinationBase ==
    /\ [][(Started /\ round >= 17 /\ IsSelectionRound(round))
            => /\ currentVariation' = "REVERSE_COMBINATION"
               /\ currentCombinationBase' \in
                      {"GHOST", "SPEED_CHAOS", "COLOR_SHUFFLE",
                       "SELECTIVE_ATTENTION"}
               /\ currentCombinationBase' # currentCombinationBase
               /\ variationManager'.combinationBase = currentCombinationBase'
               /\ variationManager'.combinationBase
                      # variationManager.combinationBase]_vars
    /\ [](currentVariation # "REVERSE_COMBINATION"
            => currentCombinationBase = "null")

\* C17 witness: the selection of round 20 chose the base SPEED_CHAOS for the
\* second combination window.
C17_Witness ==
    /\ op = "startGame"
    /\ round = 20
    /\ currentVariation = "REVERSE_COMBINATION"
    /\ currentCombinationBase = "SPEED_CHAOS"
    /\ variationStartRound = 17

-----------------------------------------------------------------------------
(* Properties of calculateReward                                           *)

\* min(max_single_payout, base_reward * roundMultiplier * variationBonus *
\* difficultyMultiplier) rounded half up to a whole cent, in exact
\* arithmetic: the product is taken in units of 1/20000 cent.
ExactReward(r, variation, difficulty) ==
    LET rm == IF r <= 20 THEN round_multipliers[r] ELSE 800 + (r - 20) * 100
        product == 5 * rm * variation_bonuses[variation]
                     * difficulty_settings[difficulty]
        limited == IF product < 20000 * 20000 THEN product ELSE 20000 * 20000
    IN  (limited + 10000) \div 20000

\* C19: for every round >= 1, variation and configured difficulty,
\* calculateReward(round, variation) is min(max_single_payout, base_reward *
\* roundMultiplier(round) * variationBonus(variation) *
\* difficultyMultiplier) rounded half up to 2 decimals.
C19_RewardIsRoundedProduct ==
    [][op' = "calculateReward"
         => lastReward' =
               ExactReward(round, currentVariation, tm.currentDifficulty)]_vars

\* C20: for a fixed variation and difficulty the reward of round r + 1 is at
\* least the reward of round r, for every r >= 1 (also from r = 20 to
\* r = 21, across the end of the multiplier table), and no reward exceeds
\* max_single_payout.
C20_RewardMonotoneAndCapped ==
    [][op' = "calculateReward"
         => /\ lastReward' <= 20000
            /\ lastReward' <= calculateReward(tm, round + 1,
                                              currentVariation)]_vars

\* C20 witness: a reward was calculated that the payout limit cuts down to
\* 200.00.
C20_Witness ==
    /\ op = "calculateReward"
    /\ lastReward = 20000
    /\ tm.currentDifficulty = "hard"
    /\ currentVariation = "REVERSE_COMBINATION"
    /\ round = 42

-----------------------------------------------------------------------------
(* Properties of the TicketManager                                         *)

\* C21: deductGameCost with balance < cost_to_play returns false and changes
\* no field of the economy; with balance >= cost_to_play it returns true,
\* takes exactly cost_to_play from balance, adds it to totalSpent and adds 1
\* to gamesPlayed, leaving totalEarned, highestRound and the difficulty as
\* they are.
C21_DeductGameCost ==
    [][op' = "deductGameCost"
         => IF tm.balance < 1000
            THEN ret' = "false" /\ tm' = tm
            ELSE /\ ret' = "true"
                 /\ tm'.balance = tm.balance - 1000
                 /\ tm'.totalSpent = tm.totalSpent + 1000
                 /\ tm'.gamesPlayed = tm.gamesPlayed + 1
                 /\ tm'.totalEarned = tm.totalEarned
                 /\ tm'.highestRound = tm.highestRound
                 /\ tm'.currentDifficulty = tm.currentDifficulty]_vars

\* C21 witness: a third game was refused for want of funds after two games
\* had been paid for.
C21_Witness ==
    /\ op = "deductGameCost"
    /\ ret = "false"
    /\ tm.gamesPlayed = 2
    /\ tm.balance = 500
    /\ tm.totalSpent = 2000

\* C22: addReward(a) sets balance to min(balance + a, max_balance), so that
\* balance never exceeds max_balance, and adds all of a to totalEarned even
\* when the balance is limited; totalSpent, gamesPlayed and highestRound are
\* unchanged.
C22_AddRewardClamps ==
    /\ [][\A a \in RewardAmounts :
            addRewardCall(a)
            => /\ tm'.balance = IF tm.balance + a < 999999
                                THEN tm.balance + a
                                ELSE 999999
               /\ tm'.totalEarned = tm.totalEarned + a
               /\ tm'.totalSpent = tm.totalSpent
               /\ tm'.gamesPlayed = tm.gamesPlayed
               /\ tm'.highestRound = tm.highestRound]_vars
    /\ [](tm.balance <= 999999)

\* C22 witness: a reward of 10000.00 was added to a balance of 25.00; the
\* balance is held at 9999.99 and all of the reward is counted as earned.
C22_Witness ==
    /\ op = "addReward"
    /\ tm.balance = 999999
    /\ tm.totalEarned = 1000000
    /\ tm.totalSpent = 0

\* C23: updateHighestRound(r) leaves highestRound at the larger of its value
\* and r, and nothing but the reset of the economy changes highestRound
\* otherwise; hence highestRound is the largest round passed since the last
\* reset and never decreases in between.
C23_HighestRoundIsMaximum ==
    /\ [][\A r \in 0..MaxHighestRound :
            updateHighestRoundCall(r)
            => tm'.highestRound =
                  IF r > tm.highestRound THEN r ELSE tm.highestRound]_vars
    /\ [][op' # "reset" => tm'.highestRound >= tm.highestRound]_vars
    /\ [][op' \notin {"reset", "updateHighestRound"}
            => tm'.highestRound = tm.highestRound]_vars

\* C23 witness: round 1 was passed after round 3, and highestRound is
\* still 3.
C23_Witness ==
    /\ op = "updateHighestRound"
    /\ tm.highestRound = 3
    /\ ret = "void"
    /\ tm.gamesPlayed = 1
    /\ tm.totalEarned = 900

\* C24: getRTP returns 0 when totalSpent is 0 and the quotient
\* totalEarned / totalSpent otherwise.
C24_ReturnToPlayer ==
    [][op' = "getRTP"
         => IF tm.totalSpent = 0
            THEN ret' = <<0, 1>>
            ELSE /\ ret'[2] # 0
                 /\ ret'[1] = tm.totalEarned
                 /\ ret'[2] = tm.totalSpent]_vars

\* C24 witness: 10.00 were spent and 9.00 earned, and getRTP returned
\* 9/10.
C24_Witness ==
    /\ op = "getRTP"
    /\ tm.totalSpent = 1000
    /\ tm.totalEarned = 900
    /\ ret[1] * 10 = ret[2] * 9

\* C25: the reset of the economy restores balance to the starting balance
\* and sets totalEarned, totalSpent, gamesPlayed and highestRound to 0
\* without changing the selected difficulty; afterwards a game can be
\* afforded, the starting balance covering its cost.
C25_EconomyReset ==
    [][op' = "reset"
         => /\ tm'.balance = starting_balance
            /\ tm'.totalEarned = 0
            /\ tm'.totalSpent = 0
            /\ tm'.gamesPlayed = 0
            /\ tm'.highestRound = 0
            /\ tm'.currentDifficulty = tm.currentDifficulty
            /\ starting_balance >= 1000 => canAffordGame(tm')]_vars

\* C25 witness: the economy was reset under the difficulty hard after games
\* had been paid for, and shows the starting balance and no statistics.
C25_Witness ==
    /\ op = "reset"
    /\ tm.currentDifficulty = "hard"
    /\ tm.balance = starting_balance
    /\ tm.totalSpent = 0
    /\ tm.gamesPlayed = 0

-----------------------------------------------------------------------------
(* Properties of the engine's accounting: the cost gate, score and         *)
(* lastReward                                                              *)

\* C26: startGameWithTickets with an economy attached whose balance is
\* below cost_to_play returns false and leaves the session (its state
\* included) and every field of the economy unchanged; with a sufficient
\* balance it takes exactly one cost_to_play, starts the round and returns
\* true.
C26_CostGate ==
    [][(op' = "startGameWithTickets" /\ ticketManager = "tm")
         => IF tm.balance < 1000
            THEN /\ ret' = "false"
                 /\ tm' = tm
                 /\ state' = state
                 /\ engineVars' = engineVars
                 /\ variationManager' = variationManager
            ELSE /\ ret' = "true"
                 /\ tm'.balance = tm.balance - 1000
                 /\ tm'.totalSpent = tm.totalSpent + 1000
                 /\ tm'.gamesPlayed = tm.gamesPlayed + 1
                 /\ tm'.totalEarned = tm.totalEarned
                 /\ state' \in {"CALIBRATION", "PATTERN_DISPLAY",
                                "VARIATION_INTRO"}
                 /\ Len(pattern') >= 4]_vars

\* C26 witness: after two paid games the third start was refused in
\* INITIALIZATION.
C26_Witness ==
    /\ op = "startGameWithTickets"
    /\ ret = "false"
    /\ state = "INITIALIZATION"
    /\ tm.gamesPlayed = 2
    /\ tm.balance < 1000

\* C27: with no economy attached, completing round r adds exactly 100 * r to
\* score under the variation NONE and round(100 * r * 1.15) under any other
\* variation (230 for round 2), and lastReward stays 0.
C27_FallbackScore ==
    /\ [][(ticketManager = "null" /\ state = "PLAYER_INPUT"
              /\ state' = "ROUND_COMPLETE")
            => /\ round' = round + 1
               /\ score' - score =
                      IF currentVariation = "NONE"
                      THEN 100 * round
                      ELSE (100 * round * 115 + 50) \div 100
               /\ round = 2 /\ currentVariation # "NONE"
                      => score' - score = 230
               /\ lastReward' = 0]_vars
    /\ [](ticketManager = "null" => lastReward = 0)

\* C27 witness: rounds 1 and 2 were completed, for 100 and 230 points.
C27_Witness ==
    /\ ticketManager = "null"
    /\ state = "ROUND_COMPLETE"
    /\ round = 3
    /\ score = 330
    /\ currentVariation = "GHOST"

\* C28: lastReward is 0 if no round has been completed since construction or
\* reset, or if the most recent round outcome was a failure (the state is
\* ROUND_FAILED).  With an economy attached every completion raises the
\* score, so no round has been completed exactly if score = 0.
C28_LastRewardZeroAfterFailure ==
    /\ [](score = 0 => lastReward = 0)
    /\ [](state = "ROUND_FAILED" => lastReward = 0)

-----------------------------------------------------------------------------
(* Properties of calculateReward under configuration gaps                  *)

\* The reward of the round and variation at hand when the bonus is the
\* configured value if the variation's key is in the bonus table and 1.00
\* only if it is missing, and the difficulty multiplier is the configured
\* value if the current difficulty is in the difficulty table and 1.00 only
\* if it is missing.
RewardWithDocumentedDefaults ==
    LET bonus == IF currentVariation \in DOMAIN tm.config.variation_bonuses
                 THEN tm.config.variation_bonuses[currentVariation]
                 ELSE 100
        difficulty ==
            IF tm.currentDifficulty \in DOMAIN tm.config.difficulty_settings
            THEN tm.config.difficulty_settings[tm.currentDifficulty]
            ELSE 100
    IN  roundToTicketPrecision(
            MathMin(DoubleMul(DoubleMul(DoubleMul(
                                  ConfigNumber(base_reward),
                                  ConfigNumber(getRoundMultiplier(tm, round))),
                              ConfigNumber(bonus)),
                              ConfigNumber(difficulty)),
                    ConfigNumber(max_single_payout)))

\* C30: calculateReward never fails on a configuration gap: it uses the
\* configured bonus when the variation's key is present and 1.00 only when
\* the key is missing, and the configured reward multiplier of the current
\* difficulty when that key is present and 1.00 only when it is missing.
C30_DefaultsOnlyForMissingKeys ==
    [][op' = "calculateReward"
         => lastReward' = RewardWithDocumentedDefaults]_vars

-----------------------------------------------------------------------------
(* Properties of the round multiplier                                      *)

\* The multiplier of round r that reads the table up to its 20th entry and
\* continues from that entry by 1.00 a round, in hundredths.
MultiplierFromLastEntry(table, r) ==
    IF r <= 20 THEN table[r] ELSE table[20] + (r - 20) * 100

\* C31: for any configured 20-entry multiplier table the multiplier of a
\* round from 1 to 20 is the table's entry of that round, and of a later
\* round it is the 20th entry plus 1.00 for every round after the 20th;
\* calculateReward is read with that multiplier.
C31_MultiplierContinuesFromTable ==
    [][op' = "calculateReward"
         => lastReward' =
               roundToTicketPrecision(
                   MathMin(DoubleMul(DoubleMul(DoubleMul(
                               ConfigNumber(base_reward),
                               ConfigNumber(MultiplierFromLastEntry(
                                   tm.config.round_multipliers, round))),
                               ConfigNumber(getVariationBonus(
                                   tm, currentVariation))),
                               ConfigNumber(getDifficultyMultiplier(tm))),
                           ConfigNumber(max_single_payout)))]_vars

-----------------------------------------------------------------------------
(* Properties of the GameBoard's sessions                                  *)

\* C32: with a ticket manager attached, the submission that completes
\* round r under variation v sets lastReward to calculateReward(r, v) for
\* the round number before the increment, adds it to the balance up to
\* max_balance and to totalEarned, raises highestRound to
\* max(highestRound, r) and adds round(100 * lastReward) to the score; a
\* failing submission in round r changes nothing in the ticket manager but
\* highestRound, which becomes max(highestRound, r).
C32_CompletionPaysTheRound ==
    [][(ticketManager # "null" /\ state = "PLAYER_INPUT")
          => /\ state' = "ROUND_COMPLETE"
                => LET reward == calculateReward(tm, round, currentVariation)
                   IN  /\ round' = round + 1
                       /\ lastReward' = reward
                       /\ tm' = [tm EXCEPT
                                   !.balance = Min(@ + reward, max_balance),
                                   !.totalEarned = @ + reward,
                                   !.highestRound = Max(@, round)]
                       /\ score' = score + MathRound(DoubleMul(
                                               DoubleFromRatio(100, 1),
                                               ConfigNumber(lastReward')))
             /\ state' = "ROUND_FAILED"
                => /\ tm' = [tm EXCEPT !.highestRound = Max(@, round)]
                   /\ UNCHANGED <<round, lastReward, score>>]_vars

\* The second round of a session has been completed under GHOST and paid.
C32_Witness ==
    /\ state = "ROUND_COMPLETE"
    /\ round = 3
    /\ currentVariation = "GHOST"
    /\ lastReward = calculateReward(tm, 2, "GHOST")
    /\ tm.totalEarned = calculateReward(tm, 1, "NONE") + lastReward
    /\ tm.highestRound = 2

\* C33: startGame called in ROUND_COMPLETE with round >= 2 ends in
\* VARIATION_INTRO exactly when the variation selected for the round differs
\* from the current variation before the call and has not been introduced
\* since the last reset, and in PATTERN_DISPLAY otherwise; the start of
\* round 2 and of round 17 always end in VARIATION_INTRO, and the starts of
\* rounds 3 and 4 never do.
C33_IntroOnlyForNewVariation ==
    [][(op' = "startGame" /\ state = "ROUND_COMPLETE" /\ round >= 2)
          => /\ state' \in {"VARIATION_INTRO", "PATTERN_DISPLAY"}
             /\ state' = "VARIATION_INTRO"
                <=> /\ currentVariation' # currentVariation
                    /\ currentVariation' \notin variationManager.tutorialsShown
             /\ round \in {2, 17} => state' = "VARIATION_INTRO"
             /\ round \in {3, 4} => state' = "PATTERN_DISPLAY"]_vars

\* A round has started with a variation that differs from the one before
\* and was introduced earlier in the session: the pattern is displayed at
\* once.
C33_Witness ==
    /\ op = "startGame"
    /\ state = "PATTERN_DISPLAY"
    /\ variationStartRound = round
    /\ round >= 8
    /\ currentVariation \in variationManager.tutorialsShown

\* C34: when the countdown runs out while the engine is in PLAYER_INPUT,
\* the timeout handler drives the engine to ROUND_FAILED, whatever gem is
\* expected next and however many gems have been entered; the timeout is
\* never taken as a correct submission and never completes the round.
C34_TimeoutFailsTheRound ==
    [][(op' = "handleTimeout" /\ state = "PLAYER_INPUT")
          => /\ state' = "ROUND_FAILED"
             /\ playerInput' = playerInput
             /\ round' = round]_vars

\* C35: the game cost is charged once per session: in the GameBoard's flow
\* with a ticket manager attached, continuing to the next round after
\* ROUND_COMPLETE deducts no cost_to_play and does not count a game.
C35_CostChargedOncePerSession ==
    [][(ticketManager # "null" /\ state = "ROUND_COMPLETE"
          /\ state' \in {"VARIATION_INTRO", "PATTERN_DISPLAY"})
          => /\ tm'.balance = tm.balance
             /\ tm'.totalSpent = tm.totalSpent
             /\ tm'.gamesPlayed = tm.gamesPlayed]_vars

-----------------------------------------------------------------------------
(* Properties of the input against the expected sequence                   *)

C37_EngineAgreesWithValidateInput ==
    [][\A gemstone \in GemstoneType :
          (state = "PLAYER_INPUT" /\ handlePlayerInput(gemstone))
             => LET expected == getExpectedInput(pattern, currentVariation)
                    sequence == Append(playerInput, gemstone)
                    k == Len(sequence)
                IN  /\ k <= Len(expected)
                    /\ \A i \in 1..(k - 1) : sequence[i] = expected[i]
                    /\ state' = "ROUND_COMPLETE"
                       <=> validateInput(sequence, pattern, currentVariation)
                    /\ state' = "ROUND_FAILED"
                       <=> sequence[k] # expected[k]
                    /\ state' \in {"PLAYER_INPUT", "ROUND_COMPLETE",
                                   "ROUND_FAILED"}]_vars

\* A round under REVERSE has been completed by entering the pattern
\* backwards, the pattern not being its own reverse.
C37_Witness ==
    /\ state = "ROUND_COMPLETE"
    /\ op = "handlePlayerInput"
    /\ currentVariation = "REVERSE"
    /\ playerInput # pattern
    /\ validateInput(playerInput, pattern, currentVariation)

-----------------------------------------------------------------------------
(* Properties of a round started more than once                            *)

\* C38: selection happens once per window of three rounds: a call of
\* startGame or continueToNextRound in a round that has been started
\* already, no round having been completed in between, changes neither the
\* current variation nor the combination base chosen by the first call, in
\* any round, the selection rounds 2, 5, 8, 11, 14, 17, 20 included.
C38_SecondStartKeepsSelection ==
    [][(op' \in {"startGame", "continueToNextRound"}
          /\ state \in {"CALIBRATION", "VARIATION_INTRO", "PATTERN_DISPLAY",
                        "PLAYER_INPUT"})
          => UNCHANGED <<currentVariation, currentCombinationBase>>]_vars

-----------------------------------------------------------------------------
(* Properties of the session of a player who makes no mistake              *)

\* C39: with a driver that follows the cycle startGame,
\* startPatternDisplay, startPlayerInput and a player who always submits
\* the expected gem, every submission is accepted and the round is complete
\* exactly at the submission number |pattern|; every round that has been
\* started reaches ROUND_COMPLETE, the engine never stays for ever in
\* CALIBRATION, VARIATION_INTRO, PATTERN_DISPLAY or PLAYER_INPUT, and the
\* round number grows up to the bound of the session, through the rounds of
\* REVERSE_COMBINATION.
C39_PerfectPlayProgresses ==
    /\ [][/\ op' = "handlePlayerInput"
             => /\ ret' = "true"
                /\ Len(playerInput') = Len(playerInput) + 1
                /\ state' = IF Len(playerInput') = Len(pattern)
                            THEN "ROUND_COMPLETE"
                            ELSE "PLAYER_INPUT"
          /\ round' # round
             => /\ round' = round + 1
                /\ state = "PLAYER_INPUT"
                /\ state' = "ROUND_COMPLETE"]_vars
    /\ [](state # "ROUND_FAILED")
    /\ (state \in {"CALIBRATION", "VARIATION_INTRO", "PATTERN_DISPLAY",
                   "PLAYER_INPUT"})
          ~> (state = "ROUND_COMPLETE")
    /\ <>[](state = "ROUND_COMPLETE" /\ round = MaxPerfectRound)

\* The session has reached its last round through a round of
\* REVERSE_COMBINATION.
C39_Witness ==
    /\ state = "ROUND_COMPLETE"
    /\ round = MaxPerfectRound
    /\ round >= 18
    /\ currentVariation = "REVERSE_COMBINATION"
    /\ playerInput = Reverse(pattern)

-----------------------------------------------------------------------------
(* Properties of the ledger                                                *)

\* C40: from a configuration with min_balance <= starting_balance <=
\* max_balance and a cost that is not negative, every state reachable
\* through startGameWithTickets, the completion and the failure of rounds,
\* resetGame and the reset of the TicketManager keeps min_balance <= balance
\* <= max_balance, and balance equals starting_balance - totalSpent +
\* totalEarned as long as no reward has been clamped at max_balance (none is
\* in these sessions, whose balance stays below max_balance).
C40_BalanceWithinLimitsAndAccounted ==
    /\ ~DoubleLess(tm.balance, MinBalance)
    /\ ~DoubleLess(MaxBalance, tm.balance)
    /\ DoubleLess(tm.balance, MaxBalance)
       => tm.balance = DoubleAdd(DoubleSub(StartingBalance, tm.totalSpent),
                                 tm.totalEarned)

====
